---- MODULE Spec2Model ----
(***************************************************************************)
(* Transaction ingestion and classification engine of bankJBDY.            *)
(*                                                                         *)
(* Text is a sequence of one-character strings, so that the conversions of *)
(* the code (header normalisation, number and date parsing, str() of a     *)
(* value, keyword search) are computed rather than assumed.  The amounts   *)
(* are IEEE-754 binary64 values, computed with round-to-nearest-even as    *)
(* pandas / numpy compute them.                                            *)
(***************************************************************************)
EXTENDS Integers, Sequences, FiniteSets, TLC

VARIABLES
    categories,   \* table categories: names in id (insertion) order
    rules,        \* table categorization_rules: rows [cat, keyword] in id order
    ledger,       \* table transactions: records in rowid order, hash is the key
    session,      \* st.session_state.transactions: [loaded, rows]
    last,         \* outcome of the last handler that ran
    imported,     \* history: the (table, account) pairs whose import succeeded
    steps,        \* history: the number of handlers run so far
    inp,          \* input of the function under study (function specifications)
    out           \* its result

vars == <<categories, rules, ledger, session, last, imported, steps, inp, out>>

(***************************************************************************)
(* Sequences                                                               *)
(***************************************************************************)
Range(s) == {s[i] : i \in 1..Len(s)}

\* a sequence written as a function expression, as the tuple of its values
\* (TLC then evaluates each element once, not at each application)
Tuple(f) == f \o <<>>

RECURSIVE Concat(_)
Concat(ss) == IF ss = <<>> THEN <<>> ELSE Head(ss) \o Concat(Tail(ss))

RECURSIVE SeqsUpTo(_, _)
SeqsUpTo(S, n) ==
    IF n = 0 THEN {<<>>}
    ELSE LET shorter == SeqsUpTo(S, n - 1)
         IN  shorter \cup {Append(s, x) : s \in {t \in shorter : Len(t) = n - 1}, x \in S}

(***************************************************************************)
(* binary64 arithmetic.  A significand is held in two 30-bit halves        *)
(* (hi * 2^30 + lo), which keeps every intermediate below 2^31.            *)
(* A number is [sgn, hi, lo, ex] of value (-1)^sgn * (hi*2^30 + lo) * 2^ex *)
(* with the significand 0 or in [2^52, 2^53).  The amounts of a bank       *)
(* statement stay far from the subnormal and overflow ranges, which are    *)
(* not modelled.                                                           *)
(***************************************************************************)
Half == 2^30

BigOf(n) == [hi |-> n \div Half, lo |-> n % Half]

BigIsZero(a) == a.hi = 0 /\ a.lo = 0

BigCmp(a, b) ==
    IF a.hi # b.hi THEN (IF a.hi < b.hi THEN -1 ELSE 1)
    ELSE IF a.lo # b.lo THEN (IF a.lo < b.lo THEN -1 ELSE 1)
    ELSE 0

BigAdd(a, b) ==
    LET l == a.lo + b.lo
    IN  [hi |-> a.hi + b.hi + (l \div Half), lo |-> l % Half]

\* a - b for a >= b
BigSub(a, b) ==
    IF a.lo >= b.lo THEN [hi |-> a.hi - b.hi, lo |-> a.lo - b.lo]
    ELSE [hi |-> a.hi - b.hi - 1, lo |-> a.lo + Half - b.lo]

\* a * 2^n for n < 60, the result below 2^60
BigShl(a, n) ==
    IF n >= 30
    THEN [hi |-> (a.lo % 2^(60 - n)) * 2^(n - 30), lo |-> 0]
    ELSE [hi |-> (a.hi % 2^(30 - n)) * 2^n + (a.lo \div 2^(30 - n)),
          lo |-> (a.lo % 2^(30 - n)) * 2^n]

BigShl1(a) == BigShl(a, 1)

\* floor(a / 2^n)
BigShr(a, n) ==
    IF n >= 60 THEN BigOf(0)
    ELSE IF n >= 30 THEN [hi |-> 0, lo |-> a.hi \div 2^(n - 30)]
    ELSE [hi |-> a.hi \div 2^n, lo |-> (a.lo \div 2^n) + (a.hi % 2^n) * 2^(30 - n)]

\* n bits to the right; a bit shifted out stays in the lowest bit (sticky)
BigShrJam(a, n) ==
    LET q    == BigShr(a, n)
        lost == IF n >= 60 THEN ~ BigIsZero(a) ELSE BigCmp(BigShl(q, n), a) # 0
    IN  IF lost /\ q.lo % 2 = 0 THEN [q EXCEPT !.lo = @ + 1] ELSE q

\* the number of bits of x < 2^30
BitLen30(x) == CHOOSE k \in 0..30 : x < 2^k /\ (k = 0 \/ x >= 2^(k - 1))

BitLen(a) == IF a.hi > 0 THEN 30 + BitLen30(a.hi) ELSE BitLen30(a.lo)

\* a * g for a < 2^53 and g <= 2^7
BigTimes(a, g) ==
    LET p0 == g * (a.lo % 2^15)
        p1 == g * (a.lo \div 2^15)
        l  == p0 + (p1 % 2^15) * 2^15
    IN  [hi |-> g * a.hi + (p1 \div 2^15) + (l \div Half), lo |-> l % Half]

Big52 == [hi |-> 2^22, lo |-> 0]     \* 2^52
Big53 == [hi |-> 2^23, lo |-> 0]     \* 2^53
FZero == [sgn |-> 0, hi |-> 0, lo |-> 0, ex |-> 0]

FIsZero(x) == x.hi = 0 /\ x.lo = 0

FMant(x) == [hi |-> x.hi, lo |-> x.lo]

\* a significand of at most 53 bits and its exponent as a number; 2^53 is 2^52
\* with the exponent one higher
Pack(sgn, r, e) ==
    IF BigCmp(r, Big53) = 0
    THEN [sgn |-> sgn, hi |-> Big52.hi, lo |-> 0, ex |-> e + 1]
    ELSE [sgn |-> sgn, hi |-> r.hi, lo |-> r.lo, ex |-> e]

\* (-1)^sgn * m56 * 2^e56 for m56 of 56 bits, rounded to 53 bits, ties to even
RoundEven(sgn, m56, e56) ==
    Pack(sgn,
         IF m56.lo % 8 > 4 \/ (m56.lo % 8 = 4 /\ BigShr(m56, 3).lo % 2 = 1)
         THEN BigAdd(BigShr(m56, 3), BigOf(1))
         ELSE BigShr(m56, 3),
         e56 + 3)

\* (-1)^sgn * m * 2^e rounded to 53 bits, ties to even.  m carries at most 60
\* bits; when it stands for an inexact value it has at least 55 bits and its
\* lowest bit is sticky.
RoundPack(sgn, m, e) ==
    IF BigIsZero(m) THEN [sgn |-> sgn, hi |-> 0, lo |-> 0, ex |-> 0]
    ELSE RoundEven(sgn,
                   IF BitLen(m) > 56 THEN BigShrJam(m, BitLen(m) - 56)
                   ELSE BigShl(m, 56 - BitLen(m)),
                   e + BitLen(m) - 56)

\* float(n) of a Python int
FOfInt(n) == RoundPack(IF n < 0 THEN 1 ELSE 0, BigOf(IF n < 0 THEN -n ELSE n), 0)

FNeg(x) == [x EXCEPT !.sgn = 1 - x.sgn]

FAbs(x) == [x EXCEPT !.sgn = 0]

\* |x| compared with |y|
FCmpMag(x, y) ==
    IF FIsZero(x) \/ FIsZero(y)
    THEN (IF FIsZero(x) /\ FIsZero(y) THEN 0 ELSE IF FIsZero(x) THEN -1 ELSE 1)
    ELSE IF x.ex # y.ex THEN (IF x.ex < y.ex THEN -1 ELSE 1)
    ELSE BigCmp(FMant(x), FMant(y))

FCmp(x, y) ==
    IF FIsZero(x) /\ FIsZero(y) THEN 0
    ELSE IF x.sgn # y.sgn THEN (IF x.sgn = 1 THEN -1 ELSE 1)
    ELSE IF x.sgn = 0 THEN FCmpMag(x, y) ELSE - FCmpMag(x, y)

FLe(x, y) == FCmp(x, y) <= 0

FLt(x, y) == FCmp(x, y) < 0

FEq(x, y) == FCmp(x, y) = 0

\* big + small for |big| >= |small|, neither zero, given their significands mb
\* and ms on the scale of big with three more bits
AddMants(big, small, mb, ms) ==
    IF big.sgn # small.sgn /\ BigCmp(mb, ms) = 0 THEN FZero
    ELSE RoundPack(big.sgn,
                   IF big.sgn = small.sgn THEN BigAdd(mb, ms) ELSE BigSub(mb, ms),
                   big.ex - 3)

AddOrdered(big, small) ==
    AddMants(big, small, BigShl(FMant(big), 3),
             BigShrJam(BigShl(FMant(small), 3), big.ex - small.ex))

\* x + y
FAdd(x, y) ==
    IF FIsZero(x) /\ FIsZero(y)
    THEN [sgn |-> IF x.sgn = 1 /\ y.sgn = 1 THEN 1 ELSE 0, hi |-> 0, lo |-> 0, ex |-> 0]
    ELSE IF FIsZero(x) THEN y
    ELSE IF FIsZero(y) THEN x
    ELSE AddOrdered(IF FCmpMag(x, y) >= 0 THEN x ELSE y,
                    IF FCmpMag(x, y) >= 0 THEN y ELSE x)

FSub(x, y) == FAdd(x, FNeg(y))

\* the next digit of 7 bits of the long division by d: low or low + 1, r2 being
\* the remainder with 7 more bits
DivDigit(r2, d, low) ==
    IF BigCmp(BigTimes(d, low + 1), r2) <= 0 THEN low + 1 ELSE low

\* the quotient q and the remainder after the digit g
DivNext(q, r2, d, g) ==
    <<BigAdd(BigShl(q, 7), BigOf(g)), BigSub(r2, BigTimes(d, g))>>

\* one more digit of 7 bits of the long division by d; s is <<quotient, remainder>>
DivStep(s, d) ==
    DivNext(s[1], BigShl(s[2], 7), d,
            DivDigit(BigShl(s[2], 7), d, BigShl(s[2], 7).hi \div (d.hi + 1)))

\* k more digits of the long division by d
RECURSIVE DivDigits(_, _, _)
DivDigits(s, d, k) ==
    IF k = 0 THEN s
    ELSE CHOOSE qr \in {DivDigits(next, d, k - 1) : next \in {DivStep(s, d)}} : TRUE

\* the quotient of qr = <<quotient, remainder>> with a sticky lowest bit
Quotient(sgn, qr, e) ==
    RoundPack(sgn,
              IF BigIsZero(qr[2]) \/ qr[1].lo % 2 = 1 THEN qr[1]
              ELSE BigAdd(qr[1], BigOf(1)),
              e)

\* x / y, y # 0: the leading bit and 56 more bits of the quotient of the
\* significands
FDiv(x, y) ==
    IF FIsZero(x) THEN [sgn |-> (x.sgn + y.sgn) % 2, hi |-> 0, lo |-> 0, ex |-> 0]
    ELSE Quotient((x.sgn + y.sgn) % 2,
                  DivDigits(IF BigCmp(FMant(x), FMant(y)) >= 0
                            THEN <<BigOf(1), BigSub(FMant(x), FMant(y))>>
                            ELSE <<BigOf(0), FMant(x)>>,
                            FMant(y), 8),
                  x.ex - y.ex - 56)

(***************************************************************************)
(* Text                                                                    *)
(***************************************************************************)
UpperChars == <<"A", "B", "C", "D", "E", "F", "G", "H", "I", "J", "K", "L", "M", "N", "O", "P", "Q", "R", "S", "T", "U", "V", "W", "X", "Y", "Z">>

LowerChars == <<"a", "b", "c", "d", "e", "f", "g", "h", "i", "j", "k", "l", "m", "n", "o", "p", "q", "r", "s", "t", "u", "v", "w", "x", "y", "z">>

DigitChars == <<"0", "1", "2", "3", "4", "5", "6", "7", "8", "9">>

IsDigit(c) == \E i \in 1..10 : DigitChars[i] = c

DigitVal(c) == (CHOOSE i \in 1..10 : DigitChars[i] = c) - 1

\* str.lower() on one character
LowerChar(c) ==
    IF \E i \in 1..26 : UpperChars[i] = c
    THEN LowerChars[CHOOSE i \in 1..26 : UpperChars[i] = c]
    ELSE c

\* str.lower()
Lower(s) == Tuple([i \in 1..Len(s) |-> LowerChar(s[i])])

\* str.replace(old, new) for a one-character old; new is a text
Replace(s, old, new) ==
    LET End(i) == i + (Len(new) - 1) * Cardinality({p \in 1..i : s[p] = old})
        Src(j) == CHOOSE i \in 1..Len(s) : End(i) >= j /\ (i = 1 \/ End(i - 1) < j)
    IN  Tuple([j \in 1..End(Len(s)) |->
            LET i == Src(j)
            IN  IF s[i] = old THEN new[j - End(i - 1)] ELSE s[i]])

\* n as a text of exactly w digits (strftime's zero padding)
ZeroPad(n, w) == Tuple([i \in 1..w |-> DigitChars[((n \div 10^(w - i)) % 10) + 1]])

\* the text of a non-negative int: str(n)
NatText(n) ==
    ZeroPad(n, CHOOSE k \in 1..10 : (k = 10 \/ n < 10^k) /\ (k = 1 \/ n >= 10^(k - 1)))

\* the value of a text of at most 9 digits: int(s)
NatVal(s) ==
    LET D(i) == IF i <= Len(s) THEN DigitVal(s[i]) * 10^(Len(s) - i) ELSE 0
    IN  D(1) + D(2) + D(3) + D(4) + D(5) + D(6) + D(7) + D(8) + D(9)

AllDigits(s) == \A i \in 1..Len(s) : IsDigit(s[i])

\* the positions at which sub occurs in s, letter for letter
Occurrences(sub, s) ==
    {i \in 1..(Len(s) - Len(sub) + 1) : SubSeq(s, i, i + Len(sub) - 1) = sub}

(***************************************************************************)
(* Values of a DataFrame cell or of a Transaction field                    *)
(***************************************************************************)
None == [k |-> "none"]

NaN == [k |-> "nan"]

NaT == [k |-> "nat"]

Str(t) == [k |-> "str", s |-> t]

IntV(n) == [k |-> "int", n |-> n]

FloatV(f) == [k |-> "float", f |-> f]

Timestamp(y, m, d) == [k |-> "ts", y |-> y, m |-> m, d |-> d]

\* pd.isna
IsNA(v) == v.k \in {"none", "nan", "nat"}

(***************************************************************************)
(* Calendar                                                                *)
(***************************************************************************)
IsLeap(y) == (y % 4 = 0 /\ y % 100 # 0) \/ y % 400 = 0

DaysInMonth(y, m) ==
    IF m = 2 THEN (IF IsLeap(y) THEN 29 ELSE 28)
    ELSE IF m \in {4, 6, 9, 11} THEN 30 ELSE 31

DaysBeforeMonth(y, m) ==
    <<0, 31, 59, 90, 120, 151, 181, 212, 243, 273, 304, 334>>[m]
        + (IF m > 2 /\ IsLeap(y) THEN 1 ELSE 0)

\* the proleptic Gregorian ordinal of a date (date.toordinal)
Ordinal(ts) ==
    LET y1 == ts.y - 1
    IN  y1 * 365 + (y1 \div 4) - (y1 \div 100) + (y1 \div 400)
        + DaysBeforeMonth(ts.y, ts.m) + ts.d

(***************************************************************************)
(* Normalizer: FinanceService._preprocess_dataframe                        *)
(***************************************************************************)
ColDateOperation == <<"d", "a", "t", "e", "_", "o", "p", "e", "r", "a", "t", "i", "o", "n">>

ColDateCompta == <<"d", "a", "t", "e", "_", "d", "e", "_", "c", "o", "m", "p", "t", "a", "b", "i", "l", "i", "s", "a", "t", "i", "o", "n">>

ColDateValeur == <<"d", "a", "t", "e", "_", "d", "e", "_", "v", "a", "l", "e", "u", "r">>

ColLibelleOperation == <<"l", "i", "b", "e", "l", "l", "e", "_", "o", "p", "e", "r", "a", "t", "i", "o", "n">>

ColLibelleSimplifie == <<"l", "i", "b", "e", "l", "l", "e", "_", "s", "i", "m", "p", "l", "i", "f", "i", "e">>

ColCategorie == <<"c", "a", "t", "e", "g", "o", "r", "i", "e">>

ColDebit == <<"d", "e", "b", "i", "t">>

ColCredit == <<"c", "r", "e", "d", "i", "t">>

ColMontant == <<"m", "o", "n", "t", "a", "n", "t">>

ColTypeBudget == <<"t", "y", "p", "e", "_", "b", "u", "d", "g", "e", "t">>

\* col.replace(' ', '_').lower()
NormalizeColumn(col) == Lower(Replace(col, " ", <<"_">>))

\* Series.astype(str) on a cell read from the file
AsTypeStr(cell) == IF cell.k = "nan" THEN <<"n", "a", "n">> ELSE cell.s

\* the digits of a decimal text split at its point: <<ok, whole, frac>>
SplitDecimal(t) ==
    LET dots == {i \in 1..Len(t) : t[i] = "."}
    IN  IF dots = {} THEN <<AllDigits(t) /\ t # <<>>, t, <<>> >>
        ELSE LET i == CHOOSE j \in dots : TRUE
                 w == SubSeq(t, 1, i - 1)
                 f == SubSeq(t, i + 1, Len(t))
             IN  <<Cardinality(dots) = 1 /\ AllDigits(w) /\ AllDigits(f)
                     /\ Len(w) + Len(f) > 0, w, f>>

\* pd.to_numeric(errors='coerce') on one text: an int, a float, or NaN
ToNumeric(t) ==
    LET signed == t # <<>> /\ t[1] \in {"+", "-"}
        neg    == t # <<>> /\ t[1] = "-"
        body   == IF signed THEN Tail(t) ELSE t
        parts  == SplitDecimal(body)
        hasDot == \E i \in 1..Len(body) : body[i] = "."
    IN  IF ~parts[1] THEN NaN
        ELSE IF ~hasDot
             THEN IntV(IF neg THEN - NatVal(body) ELSE NatVal(body))
        ELSE FloatV([FDiv(FOfInt(NatVal(parts[2] \o parts[3])), FOfInt(10 ^ Len(parts[3])))
                        EXCEPT !.sgn = IF neg THEN 1 ELSE 0])

\* a numeric column after to_numeric(...).fillna(0): int64 when every cell is an
\* int, float64 otherwise
NumericColumn(vals) ==
    IF \A i \in 1..Len(vals) : vals[i].k = "int" THEN vals
    ELSE Tuple([i \in 1..Len(vals) |->
            IF vals[i].k = "int" THEN FloatV(FOfInt(vals[i].n))
            ELSE IF vals[i].k = "nan" THEN FloatV(FZero)
            ELSE vals[i]])

\* element-wise credit + debit of two numeric cells
AddNumeric(a, b) ==
    IF a.k = "int" /\ b.k = "int" THEN IntV(a.n + b.n)
    ELSE FloatV(FAdd(IF a.k = "int" THEN FOfInt(a.n) ELSE a.f,
                     IF b.k = "int" THEN FOfInt(b.n) ELSE b.f))

\* the fields of a text cut at each sep
RECURSIVE Split(_, _)
Split(t, sep) ==
    LET cuts == {i \in 1..Len(t) : t[i] = sep}
    IN  IF cuts = {} THEN <<t>>
        ELSE LET i == CHOOSE j \in cuts : \A c \in cuts : j <= c
             IN  <<SubSeq(t, 1, i - 1)>> \o Split(SubSeq(t, i + 1, Len(t)), sep)

\* pd.to_datetime(format='%d/%m/%Y', errors='coerce') on one cell
ToDatetime(cell) ==
    IF cell.k # "str" THEN NaT
    ELSE LET p == Split(cell.s, "/")
         IN  IF Len(p) # 3 THEN NaT
             ELSE IF ~(AllDigits(p[1]) /\ AllDigits(p[2]) /\ AllDigits(p[3])
                       /\ Len(p[1]) \in {1, 2} /\ Len(p[2]) \in {1, 2} /\ Len(p[3]) = 4)
                  THEN NaT
             ELSE LET d == NatVal(p[1])
                      m == NatVal(p[2])
                      y == NatVal(p[3])
                  IN  IF y >= 1 /\ m \in 1..12 /\ d >= 1 /\ d <= DaysInMonth(y, m)
                      THEN Timestamp(y, m, d) ELSE NaT

(***************************************************************************)
(* A DataFrame is [columns, data]: the column names in order and the rows, *)
(* each row holding one value per column.                                  *)
(***************************************************************************)
HasCol(df, name) == \E i \in 1..Len(df.columns) : df.columns[i] = name

ColIndex(df, name) ==
    CHOOSE i \in 1..Len(df.columns) :
        df.columns[i] = name /\ \A j \in 1..Len(df.columns) : df.columns[j] = name => i <= j

\* df[name] as the sequence of its values
Col(df, name) == Tuple([r \in 1..Len(df.data) |-> df.data[r][ColIndex(df, name)]])

\* row.get(name, default)
RowGet(df, r, name, default) ==
    IF HasCol(df, name) THEN df.data[r][ColIndex(df, name)] ELSE default

\* df[name] = vals
SetCol(df, name, vals) ==
    IF HasCol(df, name)
    THEN [df EXCEPT !.data = Tuple([r \in 1..Len(df.data) |->
                                [df.data[r] EXCEPT ![ColIndex(df, name)] = vals[r]]])]
    ELSE [columns |-> Append(df.columns, name),
          data    |-> Tuple([r \in 1..Len(df.data) |-> Append(df.data[r], vals[r])])]

\* the debit column: ',' to '.', to_numeric, fillna(0); 0 when the column is absent
DebitColumn(df) ==
    IF HasCol(df, ColDebit)
    THEN NumericColumn(Tuple([r \in 1..Len(df.data) |->
            ToNumeric(Replace(AsTypeStr(Col(df, ColDebit)[r]), ",", <<".">>))]))
    ELSE Tuple([r \in 1..Len(df.data) |-> IntV(0)])

\* the credit column: as debit, with every '+' removed
CreditColumn(df) ==
    IF HasCol(df, ColCredit)
    THEN NumericColumn(Tuple([r \in 1..Len(df.data) |->
            ToNumeric(Replace(Replace(AsTypeStr(Col(df, ColCredit)[r]), ",", <<".">>),
                              "+", <<>>))]))
    ELSE Tuple([r \in 1..Len(df.data) |-> IntV(0)])

\* df[name] = pd.to_datetime(df[name], ...) when the column exists
ParseDateColumn(df, name) ==
    IF HasCol(df, name)
    THEN SetCol(df, name, Tuple([r \in 1..Len(df.data) |-> ToDatetime(Col(df, name)[r])]))
    ELSE df

\* df_processed.columns = [col.replace(' ', '_').lower() for col in ...]
RenameColumns(df) ==
    [df EXCEPT !.columns = Tuple([i \in 1..Len(df.columns) |-> NormalizeColumn(df.columns[i])])]

\* df_processed['debit'] = ...
AssignDebit(df) == SetCol(df, ColDebit, DebitColumn(df))

\* df_processed['credit'] = ...
AssignCredit(df) == SetCol(df, ColCredit, CreditColumn(df))

\* df_processed['montant'] = df_processed['credit'] + df_processed['debit']
AssignMontant(df) ==
    SetCol(df, ColMontant,
           Tuple([r \in 1..Len(df.data) |->
               AddNumeric(Col(df, ColCredit)[r], Col(df, ColDebit)[r])]))

\* the successive assignments of _preprocess_dataframe
PreprocessDataframe(raw) ==
    CHOOSE df_processed \in
        {ParseDateColumn(ParseDateColumn(ParseDateColumn(with_montant, ColDateOperation),
                                         ColDateCompta),
                         ColDateValeur) :
            with_montant \in {AssignMontant(with_credit) :
                with_credit \in {AssignCredit(with_debit) :
                    with_debit \in {AssignDebit(renamed) :
                        renamed \in {RenameColumns(raw)}}}}} : TRUE

(***************************************************************************)
(* Fingerprinter: FinanceService._calculate_hash                           *)
(***************************************************************************)
BigTimes10(a) == BigAdd(BigShl(a, 3), BigShl1(a))

\* floor(|x| * 10^k) for k <= 2 and |x| * 10^k < 2^30
ScaledFloor(x, k) ==
    LET m10 == IF k = 0 THEN FMant(x)
               ELSE IF k = 1 THEN BigTimes10(FMant(x))
               ELSE BigTimes10(BigTimes10(FMant(x)))
    IN  BigShr(m10, - x.ex).lo

\* whether |x| is the double nearest to n / 10^k
IsDecimal(x, n, k) == FEq(FAbs(x), FDiv(FOfInt(n), FOfInt(10 ^ k)))

\* the decimal texts of at most two decimals that |x| may print as: <<k, n>> for
\* n / 10^k, n being floor(|x| * 10^k) or one more
DecimalCandidates(x) ==
    UNION {{<<k, n>> : n \in {ScaledFloor(x, k), ScaledFloor(x, k) + 1}} : k \in 0..2}

\* the shortest of the decimal texts S, <<3, 0>> when there is none
Shortest(S) ==
    IF S = {} THEN <<3, 0>>
    ELSE CHOOSE c \in S : \A e \in S : c[1] < e[1] \/ (c[1] = e[1] /\ c[2] <= e[2])

\* the shortest decimal text <<k, n>> that reads back as |x|, k = 3 when |x| has
\* more than 2 decimals
ReprDecimals(x) ==
    IF x.ex >= 0 \/ x.ex < -73 THEN <<3, 0>>
    ELSE Shortest({c \in DecimalCandidates(x) : IsDecimal(x, c[2], c[1])})

\* the text of x given its sign and its shortest decimal text kn
FloatText(x, sign, kn) ==
    IF FIsZero(x) THEN sign \o <<"0", ".", "0">>
    ELSE IF kn[1] = 3
    THEN sign \o <<"0", "x">> \o NatText(x.hi) \o <<":">> \o NatText(x.lo) \o <<"p">>
              \o (IF x.ex < 0 THEN <<"-">> \o NatText(- x.ex) ELSE NatText(x.ex))
    ELSE sign \o NatText(kn[2] \div (10 ^ kn[1])) \o <<".">>
              \o (IF kn[1] = 0 THEN <<"0">> ELSE ZeroPad(kn[2] % (10 ^ kn[1]), kn[1]))

\* repr(float): the shortest decimal text that reads back as x.  An amount that
\* needs more than two decimals prints 15 to 17 significant digits; that text is
\* stood for by the text of the value's bits, which is, as repr is, one text per
\* value.
StrFloat(x) == FloatText(x, IF x.sgn = 1 THEN <<"-">> ELSE <<>>, ReprDecimals(x))

\* str(v)
StrValue(v) ==
    CASE v.k = "str"   -> v.s
      [] v.k = "nan"   -> <<"n", "a", "n">>
      [] v.k = "nat"   -> <<"N", "a", "T">>
      [] v.k = "none"  -> <<"N", "o", "n", "e">>
      [] v.k = "int"   -> IF v.n < 0 THEN <<"-">> \o NatText(- v.n) ELSE NatText(v.n)
      [] v.k = "float" -> StrFloat(v.f)
      [] v.k = "ts"    -> ZeroPad(v.y, 4) \o <<"-">> \o ZeroPad(v.m, 2) \o <<"-">>
                            \o ZeroPad(v.d, 2) \o <<" ", "0", "0", ":", "0", "0", ":", "0", "0">>

\* hashlib.sha256(...).hexdigest(): SHA-256 is taken as collision-free, a digest
\* is represented by the text it digests
Sha256(t) == [sha256 |-> t]

\* the texts joined into base_string
HashTexts(fields, account_type) ==
    Tuple([i \in 1..Len(fields) |-> StrValue(fields[i])]) \o <<account_type>>

CalculateHash(df, r, account_type) ==
    Sha256(Concat(HashTexts(<<RowGet(df, r, ColDateOperation, Str(<<>>)),
                              RowGet(df, r, ColLibelleOperation, Str(<<>>)),
                              RowGet(df, r, ColMontant, Str(<<>>))>>,
                            account_type)))

(***************************************************************************)
(* Rule store: CategoryRepository                                          *)
(* categories is the table in id order (AUTOINCREMENT, nothing is ever     *)
(* deleted), rules the table categorization_rules in id order.             *)
(***************************************************************************)
CategoryId(cats, name) == CHOOSE i \in 1..Len(cats) : cats[i] = name

\* add_category: <<inserted, categories'>>; name is UNIQUE
AddCategoryResult(cats, name) ==
    IF name \in Range(cats) THEN <<FALSE, cats>> ELSE <<TRUE, Append(cats, name)>>

\* add_rule: <<inserted, rules'>>; the category must exist, keyword is UNIQUE
AddRuleResult(cats, rls, category_name, keyword) ==
    IF category_name \notin Range(cats) THEN <<FALSE, rls>>
    ELSE IF \E i \in 1..Len(rls) : rls[i].keyword = keyword THEN <<FALSE, rls>>
    ELSE <<TRUE, Append(rls, [category_id |-> CategoryId(cats, category_name),
                              keyword     |-> keyword])>>

\* get_rules: the join has no ORDER BY; SQLite scans categorization_rules in id
\* order and looks each category up by its key, and the dict keeps the order in
\* which the category names first appear.  The result is a sequence of
\* [category, keywords].
RECURSIVE GetRulesFrom(_, _, _)
GetRulesFrom(cats, rls, acc) ==
    IF rls = <<>> THEN acc
    ELSE LET name == cats[Head(rls).category_id]
             kw   == Head(rls).keyword
             at   == {i \in 1..Len(acc) : acc[i].category = name}
         IN  GetRulesFrom(cats, Tail(rls),
                IF at = {} THEN Append(acc, [category |-> name, keywords |-> <<kw>>])
                ELSE [acc EXCEPT ![CHOOSE i \in at : TRUE].keywords = Append(@, kw)])

GetRules(cats, rls) == GetRulesFrom(cats, rls, <<>>)

\* get_all_categories: SELECT name ... ORDER BY name; only its emptiness is used
GetAllCategories(cats) == Range(cats)

\* seed_data: <<categories', rules'>>; does nothing once a category exists
RECURSIVE SeedKeywords(_, _, _, _)
SeedKeywords(cats, rls, category, keywords) ==
    IF keywords = <<>> THEN rls
    ELSE SeedKeywords(cats, AddRuleResult(cats, rls, category, Head(keywords))[2],
                      category, Tail(keywords))

RECURSIVE SeedFrom(_, _, _)
SeedFrom(cats, rls, initial_rules) ==
    IF initial_rules = <<>> THEN <<cats, rls>>
    ELSE LET cats1 == AddCategoryResult(cats, Head(initial_rules).category)[2]
             rls1  == SeedKeywords(cats1, rls, Head(initial_rules).category,
                                   Head(initial_rules).keywords)
         IN  SeedFrom(cats1, rls1, Tail(initial_rules))

SeedData(cats, rls, initial_rules) ==
    IF GetAllCategories(cats) # {} THEN <<cats, rls>>
    ELSE SeedFrom(cats, rls, initial_rules)

(***************************************************************************)
(* Categorizer: FinanceService._categorize_transactions                    *)
(***************************************************************************)
\* re.compile(keyword, re.IGNORECASE) raises re.error.  Keywords are texts of
\* letters, digits, spaces, '.' and '(': an opening parenthesis is never closed.
RegexRaises(keyword) == "(" \in Range(keyword)

\* pattern.search(text) is not None, for a pattern that compiles: '.' matches
\* any character, every other character matches itself whatever its case
RegexSearch(keyword, text) ==
    \E i \in 1..(Len(text) - Len(keyword) + 1) :
        \A j \in 1..Len(keyword) :
            \/ keyword[j] = "."
            \/ LowerChar(keyword[j]) = LowerChar(text[i + j - 1])

\* Series.str.contains(keyword, case=False, na=False) on one cell
StrContains(cell, keyword) == cell.k = "str" /\ RegexSearch(keyword, cell.s)

\* the (category, keyword) pairs in the order of the two nested loops
RECURSIVE RulePairs(_)
RulePairs(rs) ==
    IF rs = <<>> THEN <<>>
    ELSE Tuple([j \in 1..Len(Head(rs).keywords) |->
            [category |-> Head(rs).category, keyword |-> Head(rs).keywords[j]]])
         \o RulePairs(Tail(rs))

\* the loop with the candidates taken again at each pair from the categories
\* reached so far
RECURSIVE ApplyPairsFirstWins(_, _, _, _)
ApplyPairsFirstWins(pairs, labels, mask, cat) ==
    IF pairs = <<>> THEN cat
    ELSE ApplyPairsFirstWins(Tail(pairs), labels, mask,
            Tuple([r \in 1..Len(cat) |->
                IF cat[r] = Str(<<>>) /\ StrContains(labels[r], Head(pairs).keyword)
                THEN Str(Head(pairs).category) ELSE cat[r]]))

\* the loop body for every pair in turn, on the categorie column
RECURSIVE ApplyPairs(_, _, _, _)
ApplyPairs(pairs, labels, mask, cat) ==
    IF pairs = <<>> THEN cat
    ELSE ApplyPairs(Tail(pairs), labels, mask,
            Tuple([r \in 1..Len(cat) |->
                IF mask[r] /\ StrContains(labels[r], Head(pairs).keyword)
                THEN Str(Head(pairs).category) ELSE cat[r]]))

\* every row a candidate, whatever the mode
CategorizationMaskAll(cat, force) == Tuple([r \in 1..Len(cat) |-> TRUE])

\* categorization_mask: every row when force, else the rows whose category is ''
CategorizationMask(cat, force) == Tuple([r \in 1..Len(cat) |-> force \/ cat[r] = Str(<<>>)])

\* a column read from a file in which no cell holds a text is a float64 column
\* of NaN, and .str refuses it (AttributeError); a column of None built from
\* Transaction objects is an object column, which .str accepts
NotStrings(labels) ==
    labels # <<>> /\ \A r \in 1..Len(labels) : labels[r].k = "nan"

\* [raised, df]: raised when a rule is applied to a frame without the column
\* libelle_operation (KeyError) or whose column holds no text, or when a
\* keyword does not compile
CategorizeTransactions(df, rs, force) ==
    LET pairs == RulePairs(rs)
        cat0  == IF HasCol(df, ColCategorie) THEN Col(df, ColCategorie)
                 ELSE Tuple([r \in 1..Len(df.data) |-> Str(<<>>)])
        cat1  == Tuple([r \in 1..Len(cat0) |-> IF IsNA(cat0[r]) THEN Str(<<>>) ELSE cat0[r]])
        mask  == CategorizationMask(cat1, force)
        fails == pairs # <<>> /\
                 (~HasCol(df, ColLibelleOperation)
                    \/ NotStrings(Col(df, ColLibelleOperation))
                    \/ \E i \in 1..Len(pairs) : RegexRaises(pairs[i].keyword))
    IN  IF fails THEN [raised |-> TRUE, df |-> df]
        ELSE [raised |-> FALSE,
              df |-> SetCol(df, ColCategorie,
                            IF pairs = <<>> THEN cat1
                            ELSE ApplyPairs(pairs, Col(df, ColLibelleOperation), mask, cat1))]

(***************************************************************************)
(* RecurrenceDetector: FinanceService._detect_recurrences                  *)
(***************************************************************************)
Ponctuel == Str(<<"P", "o", "n", "c", "t", "u", "e", "l">>)

\* 'Récurrente'; the accented letter is the one character "e'"
Recurrente == Str(<<"R", "e'", "c", "u", "r", "r", "e", "n", "t", "e">>)

MinGroupSize == 3

MinGapDays == 28

MaxGapDays == 32

\* the literal 0.05
Tolerance == FDiv(FOfInt(5), FOfInt(100))

\* a numeric cell as a float64
AsFloat(v) == IF v.k = "int" THEN FOfInt(v.n) ELSE v.f

\* the row orders df.sort_values('date_operation') may produce: dates ascending
\* and NaT last; the default sort is not stable, so rows with equal dates come in
\* any order, while the rows without a date keep their order.  order[i] is the
\* input position of the i-th row.
SortOrders(dates) ==
    LET n == Len(dates)
    IN  {o \in [1..n -> 1..n] :
            /\ \A i, j \in 1..n : i # j => o[i] # o[j]
            /\ \A i, j \in 1..n : i < j =>
                 \/ dates[o[j]].k = "nat" /\ dates[o[i]].k # "nat"
                 \/ dates[o[i]].k = "nat" /\ dates[o[j]].k = "nat" /\ o[i] < o[j]
                 \/ dates[o[i]].k # "nat" /\ dates[o[j]].k # "nat"
                      /\ Ordinal(dates[o[i]]) <= Ordinal(dates[o[j]])}

\* the order a stable sort produces
StableOrder(dates) ==
    CHOOSE o \in SortOrders(dates) :
        \A i, j \in 1..Len(dates) :
            (i < j /\ dates[o[i]].k # "nat" /\ dates[o[j]].k # "nat"
               /\ Ordinal(dates[o[i]]) = Ordinal(dates[o[j]])) => o[i] < o[j]

\* Series.sum(): numpy adds fewer than 8 values from left to right, starting
\* from 0.0
RECURSIVE FSum(_, _)
FSum(xs, acc) ==
    IF xs = <<>> \/ acc.lo < 0 THEN acc ELSE FSum(Tail(xs), FAdd(acc, Head(xs)))

\* Series.mean()
Mean(xs) == FDiv(FSum(xs, FZero), FOfInt(Len(xs)))

\* (amount - mean).abs() / abs(mean) <= 0.05
WithinTolerance(amount, mean) ==
    FLe(FDiv(FAbs(FSub(amount, mean)), FAbs(mean)), Tolerance)

\* group['date_operation'].diff().dt.days.dropna(): the gaps between consecutive
\* rows, a gap with a missing date on either side being dropped
TimeDiffs(dates) ==
    LET gaps == Tuple([i \in 1..(Len(dates) - 1) |->
                    IF dates[i].k = "ts" /\ dates[i + 1].k = "ts"
                    THEN IntV(Ordinal(dates[i + 1]) - Ordinal(dates[i])) ELSE NaN])
    IN  SelectSeq(gaps, LAMBDA g : g.k = "int")

\* the band widened by one day on each side
IsMonthlyWide(dates) ==
    \A i \in 1..Len(TimeDiffs(dates)) :
        MinGapDays - 1 <= TimeDiffs(dates)[i].n /\ TimeDiffs(dates)[i].n <= MaxGapDays + 1

IsMonthly(dates) ==
    \A i \in 1..Len(TimeDiffs(dates)) :
        MinGapDays <= TimeDiffs(dates)[i].n /\ TimeDiffs(dates)[i].n <= MaxGapDays

\* the test of one group without its size floor
GroupIsRecurrentAnySize(amounts, dates) ==
    /\ ~FIsZero(Mean(amounts))
    /\ \A i \in 1..Len(amounts) : WithinTolerance(amounts[i], Mean(amounts))
    /\ IsMonthly(dates)

\* the test of one group, given its amounts and dates in sorted order
GroupIsRecurrent(amounts, dates) ==
    /\ Len(amounts) >= MinGroupSize
    /\ ~FIsZero(Mean(amounts))
    /\ \A i \in 1..Len(amounts) : WithinTolerance(amounts[i], Mean(amounts))
    /\ IsMonthly(dates)

\* the rows of the group of label, by position in df
GroupRows(df, label) ==
    SelectSeq(Tuple([r \in 1..Len(df.data) |-> r]),
              LAMBDA r : Col(df, ColLibelleSimplifie)[r] = label)

\* df after _detect_recurrences; order is the row order the sort produced
DetectRecurrences(df, order) ==
    LET base == SetCol(df, ColTypeBudget, Tuple([r \in 1..Len(df.data) |-> Ponctuel]))
    IN  IF ~HasCol(df, ColDateOperation) \/ ~HasCol(df, ColLibelleSimplifie) THEN base
        ELSE LET sorted == [base EXCEPT !.data = Tuple([i \in 1..Len(order) |-> base.data[order[i]]])]
                 flag(r) ==
                    LET label == Col(sorted, ColLibelleSimplifie)[r]
                        rows  == GroupRows(sorted, label)
                    IN  /\ ~IsNA(label)
                        /\ GroupIsRecurrent(
                              Tuple([i \in 1..Len(rows) |-> AsFloat(Col(sorted, ColMontant)[rows[i]])]),
                              Tuple([i \in 1..Len(rows) |-> Col(sorted, ColDateOperation)[rows[i]]]))
             IN  SetCol(sorted, ColTypeBudget,
                        Tuple([r \in 1..Len(sorted.data) |-> IF flag(r) THEN Recurrente ELSE Ponctuel]))

(***************************************************************************)
(* Import pipeline: FinanceService.process_transactions_from_df            *)
(* A Transaction carries the fields the engine reads or writes; the other  *)
(* optional fields of the dataclass (reference, type_op, date_compte, ...) *)
(* are copied from the file and never read again.                          *)
(***************************************************************************)
\* Transaction(**transaction_data) for row r of the final frame
MakeTransaction(df, r, account_type) ==
    LET date == RowGet(df, r, ColDateOperation, None)
    IN  [hash           |-> CalculateHash(df, r, account_type),
         account_type   |-> Str(account_type),
         montant        |-> RowGet(df, r, ColMontant, None),
         date_op        |-> IF IsNA(date) THEN None ELSE date,
         libelle_op     |-> RowGet(df, r, ColLibelleOperation, None),
         libelle_simple |-> RowGet(df, r, ColLibelleSimplifie, None),
         categorie      |-> RowGet(df, r, ColCategorie, None),
         sous_categorie |-> None,
         debit          |-> RowGet(df, r, ColDebit, None),
         credit         |-> RowGet(df, r, ColCredit, None),
         type_budget    |-> RowGet(df, r, ColTypeBudget, Ponctuel)]

\* the row orders the detector's sort may produce on df
DetectOrders(df) ==
    IF HasCol(df, ColDateOperation) /\ HasCol(df, ColLibelleSimplifie)
    THEN SortOrders(Col(df, ColDateOperation))
    ELSE {Tuple([i \in 1..Len(df.data) |-> i])}

\* the frames of process_transactions_from_df in the order it computes them:
\* <<processed_df, categorized_df (with raised), final_df>>
ProcessFrames(raw, rs, order) ==
    CHOOSE frames \in
        UNION {UNION {{<<processed, categorized, final>> :
                          final \in {DetectRecurrences(categorized.df, order)}} :
                      categorized \in {CategorizeTransactions(processed, rs, FALSE)}} :
               processed \in {PreprocessDataframe(raw)}} : TRUE

\* [raised, transactions]: raised when the categorizer raises, or when the frame
\* lacks a required field of Transaction (date_op, libelle_op: TypeError)
ProcessWithOrder(raw, account_type, rs, order) ==
    LET frames == ProcessFrames(raw, rs, order)
        final  == frames[3]
    IN  IF frames[2].raised
           \/ ~HasCol(final, ColDateOperation) \/ ~HasCol(final, ColLibelleOperation)
        THEN [raised |-> TRUE, transactions |-> <<>>]
        ELSE [raised |-> FALSE,
              transactions |-> Tuple([r \in 1..Len(final.data) |-> MakeTransaction(final, r, account_type)])]

\* final_df['hash']: the fingerprint of each row of the final frame
Fingerprints(raw, account_type, rs, order) ==
    LET final == ProcessFrames(raw, rs, order)[3]
    IN  Tuple([r \in 1..Len(final.data) |-> CalculateHash(final, r, account_type)])

\* the results process_transactions_from_df may return
ProcessTransactionsFromDf(raw, account_type, rs) ==
    {ProcessWithOrder(raw, account_type, rs, order) :
        order \in DetectOrders(CategorizeTransactions(PreprocessDataframe(raw), rs, FALSE).df)}

(***************************************************************************)
(* Ledger: TransactionRepository                                           *)
(***************************************************************************)
\* datetime.isoformat()
IsoFormat(ts) ==
    ZeroPad(ts.y, 4) \o <<"-">> \o ZeroPad(ts.m, 2) \o <<"-">> \o ZeroPad(ts.d, 2)
        \o <<"T", "0", "0", ":", "0", "0", ":", "0", "0">>

\* a value as SQLite stores it in a TEXT column and returns it: a date as its
\* ISO text, NaN as NULL
SqlText(v) ==
    IF v.k = "ts" THEN Str(IsoFormat(v)) ELSE IF v.k = "nan" THEN None ELSE v

\* a value as SQLite stores it in a REAL column
SqlReal(v) ==
    IF v.k = "int" THEN FloatV(FOfInt(v.n)) ELSE IF v.k = "nan" THEN None ELSE v

\* the row add_many binds for a Transaction, as get_all reads it back
SqlRow(t) ==
    [hash           |-> t.hash,
     account_type   |-> SqlText(t.account_type),
     montant        |-> SqlReal(t.montant),
     date_op        |-> SqlText(t.date_op),
     libelle_op     |-> SqlText(t.libelle_op),
     libelle_simple |-> SqlText(t.libelle_simple),
     categorie      |-> SqlText(t.categorie),
     sous_categorie |-> SqlText(t.sous_categorie),
     debit          |-> SqlReal(t.debit),
     credit         |-> SqlReal(t.credit),
     type_budget    |-> SqlText(t.type_budget)]

Hashes(rows) == {rows[i].hash : i \in 1..Len(rows)}

\* a plain INSERT of each record, the primary key not enforced
RECURSIVE InsertAlways(_, _, _)
InsertAlways(rows, transactions, count) ==
    IF transactions = <<>> THEN <<rows, count>>
    ELSE InsertAlways(Append(rows, SqlRow(Head(transactions))), Tail(transactions), count + 1)

\* INSERT OR REPLACE of each record in turn: a record whose hash is in the table
\* takes the place of the stored one
RECURSIVE InsertOrReplace(_, _, _)
InsertOrReplace(rows, transactions, count) ==
    IF transactions = <<>> THEN <<rows, count>>
    ELSE IF Head(transactions).hash \in Hashes(rows)
         THEN InsertOrReplace(
                  Tuple([i \in 1..Len(rows) |->
                      IF rows[i].hash = Head(transactions).hash
                      THEN SqlRow(Head(transactions)) ELSE rows[i]]),
                  Tail(transactions), count + 1)
         ELSE InsertOrReplace(Append(rows, SqlRow(Head(transactions))),
                              Tail(transactions), count + 1)

\* INSERT OR IGNORE of each record in turn: <<ledger', rows inserted>>
RECURSIVE InsertOrIgnore(_, _, _)
InsertOrIgnore(rows, transactions, count) ==
    IF transactions = <<>> THEN <<rows, count>>
    ELSE IF Head(transactions).hash \in Hashes(rows)
         THEN InsertOrIgnore(rows, Tail(transactions), count)
         ELSE InsertOrIgnore(Append(rows, SqlRow(Head(transactions))),
                             Tail(transactions), count + 1)

\* add_many: <<ledger', cursor.rowcount>>
AddMany(rows, transactions) ==
    IF transactions = <<>> THEN <<rows, 0>> ELSE InsertOrIgnore(rows, transactions, 0)

\* the table as the connection of add_many sees it once executemany has run
\* the first `done` records of the batch
Pending(rows, transactions, done) ==
    InsertOrIgnore(rows, SubSeq(transactions, 1, done), 0)[1]

\* a connection whose close keeps what was written
CloseCommitting(committed, pending) == pending

\* _get_connection: conn.close() before conn.commit() was reached drops what
\* the connection wrote
CloseWithoutCommit(committed, pending) == committed

\* get_all
GetAll(rows) == rows

\* an update that never reaches the table
UpdateCategoryLost(rows, transaction_hash, category, sub_category) == rows

\* update_category
UpdateCategory(rows, transaction_hash, category, sub_category) ==
    Tuple([i \in 1..Len(rows) |->
        IF rows[i].hash = transaction_hash
        THEN [rows[i] EXCEPT !.categorie = category, !.sous_categorie = sub_category]
        ELSE rows[i]])

\* an update that removes the record it names
UpdateBudgetTypeDropping(rows, transaction_hash, budget_type) ==
    SelectSeq(rows, LAMBDA row : row.hash # transaction_hash)

\* update_budget_type
UpdateBudgetType(rows, transaction_hash, budget_type) ==
    Tuple([i \in 1..Len(rows) |->
        IF rows[i].hash = transaction_hash
        THEN [rows[i] EXCEPT !.type_budget = budget_type]
        ELSE rows[i]])

(***************************************************************************)
(* Re-sweep: FinanceService.recategorize_all                               *)
(***************************************************************************)
ColHash == <<"h", "a", "s", "h">>

\* pd.DataFrame([asdict(t) ...]) with libelle_op renamed, reduced to the columns
\* the sweep reads
SweepFrame(all_transactions) ==
    [columns |-> <<ColHash, ColLibelleOperation, ColCategorie>>,
     data    |-> Tuple([i \in 1..Len(all_transactions) |->
                    <<all_transactions[i].hash, all_transactions[i].libelle_op,
                      all_transactions[i].categorie>>])]

\* [raised, diff]: the (hash, new category) pairs of the rows whose category
\* after the forced categorization differs from the one before
RecategorizeAll(all_transactions, rs) ==
    IF all_transactions = <<>> THEN [raised |-> FALSE, diff |-> <<>>]
    ELSE LET df   == SweepFrame(all_transactions)
             old  == Col(df, ColCategorie)
             res  == CategorizeTransactions(df, rs, TRUE)
             new  == Col(res.df, ColCategorie)
             rows == SelectSeq(Tuple([i \in 1..Len(old) |-> i]), LAMBDA i : new[i] # old[i])
         IN  IF res.raised THEN [raised |-> TRUE, diff |-> <<>>]
             ELSE [raised |-> FALSE,
                   diff |-> Tuple([j \in 1..Len(rows) |->
                               [hash |-> Col(df, ColHash)[rows[j]], categorie |-> new[rows[j]]]])]

(***************************************************************************)
(* Raw tables: what pd.read_csv(sep=';') hands to the engine.  A cell is   *)
(* the text of the field, or NaN for an empty field.                       *)
(***************************************************************************)
HeaderDate == <<"D", "a", "t", "e", " ", "o", "p", "e", "r", "a", "t", "i", "o", "n">>

HeaderSimple == <<"L", "i", "b", "e", "l", "l", "e", " ", "s", "i", "m", "p", "l", "i", "f", "i", "e">>

HeaderLabel == <<"L", "i", "b", "e", "l", "l", "e", " ", "o", "p", "e", "r", "a", "t", "i", "o", "n">>

HeaderDebit == <<"D", "e", "b", "i", "t">>

HeaderCredit == <<"C", "r", "e", "d", "i", "t">>

HeaderBudget == <<"T", "y", "p", "e", " ", "b", "u", "d", "g", "e", "t">>

\* the variables a specification does not use
Idle == [k |-> "none"]

(***************************************************************************)
(* SpecDetect: the detector applied to batches of statement lines          *)
(***************************************************************************)
MinBatch == 2

MaxBatch == 3

SimpleLabels == {Str(<<"N", "E", "T", "F", "L", "I", "X">>), Str(<<"E", "D", "F">>), NaN}

\* debit cells of successive lines
DebitSeries ==
    {<<Str(<<"-", "1", "0">>), Str(<<"-", "1", "0", ",", "2">>), Str(<<"-", "9", ",", "8">>), Str(<<"-", "1", "0", ",", "0", "5">>)>>,
     <<Str(<<"-", "0", ",", "9", "5">>), Str(<<"-", "1">>), Str(<<"-", "1", ",", "0", "5">>), Str(<<"-", "1">>)>>,
     <<Str(<<"-", "9", "5">>), Str(<<"-", "1", "0", "0">>), Str(<<"-", "1", "0", "5">>), Str(<<"-", "1", "0", "0">>)>>,
     <<Str(<<"4", "5">>), Str(<<"4", "6">>), Str(<<"4", "9">>), Str(<<"4", "7">>)>>,
     <<Str(<<"-", "1", "0">>), Str(<<"-", "1", "0">>), Str(<<"-", "1", "2">>), Str(<<"-", "1", "0">>)>>,
     <<Str(<<"-", "1", "0">>), Str(<<"1", "0">>), Str(<<"0">>), NaN>>,
     <<Str(<<"-", "0", ",", "3", "9">>), Str(<<"-", "0", ",", "3", "9">>), Str(<<"-", "0", ",", "4", "2">>), Str(<<"-", "0", ",", "3", "9">>)>>}

\* operation dates of successive lines
DateSeries ==
    {<<Str(<<"0", "1", "/", "0", "1", "/", "2", "0", "2", "4">>), Str(<<"0", "1", "/", "0", "2", "/", "2", "0", "2", "4">>), Str(<<"0", "1", "/", "0", "3", "/", "2", "0", "2", "4">>), Str(<<"0", "1", "/", "0", "4", "/", "2", "0", "2", "4">>)>>,
     <<Str(<<"0", "1", "/", "0", "3", "/", "2", "0", "2", "4">>), Str(<<"0", "1", "/", "0", "1", "/", "2", "0", "2", "4">>), Str(<<"2", "9", "/", "0", "1", "/", "2", "0", "2", "4">>), Str(<<"0", "2", "/", "0", "4", "/", "2", "0", "2", "4">>)>>,
     <<Str(<<"0", "1", "/", "0", "1", "/", "2", "0", "2", "4">>), Str(<<"2", "8", "/", "0", "1", "/", "2", "0", "2", "4">>), Str(<<"2", "5", "/", "0", "2", "/", "2", "0", "2", "4">>), Str(<<"2", "4", "/", "0", "3", "/", "2", "0", "2", "4">>)>>,
     <<Str(<<"0", "1", "/", "0", "1", "/", "2", "0", "2", "4">>), Str(<<"0", "3", "/", "0", "2", "/", "2", "0", "2", "4">>), Str(<<"0", "1", "/", "0", "3", "/", "2", "0", "2", "4">>), Str(<<"0", "1", "/", "0", "4", "/", "2", "0", "2", "4">>)>>,
     <<Str(<<"0", "1", "/", "0", "1", "/", "2", "0", "2", "4">>), Str(<<"0", "1", "/", "0", "1", "/", "2", "0", "2", "4">>), Str(<<"0", "1", "/", "0", "2", "/", "2", "0", "2", "4">>), Str(<<"0", "1", "/", "0", "3", "/", "2", "0", "2", "4">>)>>,
     <<Str(<<"0", "1", "/", "0", "1", "/", "2", "0", "2", "4">>), NaN, Str(<<"0", "1", "/", "0", "3", "/", "2", "0", "2", "4">>), Str(<<"3", "1", "/", "0", "3", "/", "2", "0", "2", "4">>)>>,
     <<NaN, Str(<<"3", "1", "/", "0", "2", "/", "2", "0", "2", "4">>), NaN, NaN>>,
     <<Str(<<"0", "1", "/", "0", "2", "/", "2", "0", "2", "3">>), Str(<<"0", "1", "/", "0", "3", "/", "2", "0", "2", "3">>), Str(<<"0", "1", "/", "0", "4", "/", "2", "0", "2", "3">>), Str(<<"0", "1", "/", "0", "5", "/", "2", "0", "2", "3">>)>>,
     <<Str(<<"0", "1", "/", "0", "1", "/", "2", "0", "2", "4">>), Str(<<"0", "1", "/", "0", "2", "/", "2", "0", "2", "4">>), Str(<<"2", "1", "/", "0", "2", "/", "2", "0", "2", "4">>), Str(<<"0", "1", "/", "0", "4", "/", "2", "0", "2", "4">>)>>}

\* a raw table of n lines; simple = Idle stands for a file without the column
\* of simplified labels
DetectTable(n, simple, debit, date) ==
    IF simple = Idle
    THEN [columns |-> <<HeaderDate, HeaderDebit>>,
          data    |-> Tuple([r \in 1..n |-> <<date[r], debit[r]>>])]
    ELSE [columns |-> <<HeaderDate, HeaderSimple, HeaderDebit>>,
          data    |-> Tuple([r \in 1..n |-> <<date[r], simple[r], debit[r]>>])]

\* the table with a column 'Type budget' that says Récurrente on every line, as
\* in a file exported from the application
WithBudgetColumn(table) ==
    [columns |-> Append(table.columns, HeaderBudget),
     data    |-> Tuple([r \in 1..Len(table.data) |-> Append(table.data[r], Recurrente)])]

DetectTables ==
    LET plain == UNION {{DetectTable(n, simple, debit, date) :
                            simple \in {Idle} \cup [1..n -> SimpleLabels],
                            debit \in DebitSeries, date \in DateSeries} :
                        n \in MinBatch..MaxBatch}
    IN  plain \cup {WithBudgetColumn(table) : table \in plain}

InitDetect ==
    /\ \E raw \in DetectTables :
          inp = [op |-> "detect", raw |-> raw, df |-> PreprocessDataframe(raw)]
    /\ out = Idle
    /\ categories = <<>> /\ rules = <<>> /\ ledger = <<>>
    /\ session = Idle /\ last = Idle /\ imported = {} /\ steps = 0

\* _detect_recurrences(df)
Detect ==
    /\ inp.op = "detect" /\ out = Idle
    /\ \E order \in DetectOrders(inp.df) :
          out' = [k |-> "frame", df |-> DetectRecurrences(inp.df, order)]
    /\ UNCHANGED <<categories, rules, ledger, session, last, imported, steps, inp>>

NextDetect == Detect

SpecDetect == InitDetect /\ [][NextDetect]_vars

(***************************************************************************)
(* Properties of the detector                                              *)
(***************************************************************************)
Detected == inp.op = "detect" /\ out # Idle

\* the rows of the result that carry label
ResultGroup(label) ==
    SelectSeq(Tuple([r \in 1..Len(out.df.data) |-> r]),
              LAMBDA r : RowGet(out.df, r, ColLibelleSimplifie, NaN) = label)

ResultAmounts(label) ==
    Tuple([i \in 1..Len(ResultGroup(label)) |-> AsFloat(Col(out.df, ColMontant)[ResultGroup(label)[i]])])

ResultDates(label) ==
    Tuple([i \in 1..Len(ResultGroup(label)) |-> Col(out.df, ColDateOperation)[ResultGroup(label)[i]]])

\* the number of rows of the input batch that carry label
SharedBy(label) ==
    Cardinality({q \in 1..Len(inp.df.data) :
                    RowGet(inp.df, q, ColLibelleSimplifie, NaN) = label})

\* C9: after detect, every row whose simplified label is shared by fewer than 3
\* rows of the input batch, and every row without a simplified label, has the
\* budget kind Ponctuel.
SizeFloor ==
    Detected =>
        \A r \in 1..Len(out.df.data) :
            LET label == RowGet(out.df, r, ColLibelleSimplifie, NaN)
            IN  (IsNA(label) \/ SharedBy(label) < 3)
                    => RowGet(out.df, r, ColTypeBudget, NaN) = Ponctuel

\* a group of two rows a month apart with stable amounts, which only its size
\* keeps from the flag
SizeFloorWitness ==
    /\ Detected
    /\ HasCol(out.df, ColLibelleSimplifie)
    /\ \E r \in 1..Len(out.df.data) :
          LET label == Col(out.df, ColLibelleSimplifie)[r]
          IN  /\ ~IsNA(label)
              /\ SharedBy(label) = 2
              /\ GroupIsRecurrentAnySize(ResultAmounts(label), ResultDates(label))
              /\ Col(out.df, ColTypeBudget)[r] = Ponctuel

\* the amount of a cell in hundredths, for an amount of at most two decimals
Cents(v) ==
    IF v.k = "int" THEN 100 * v.n
    ELSE IF FIsZero(v.f) THEN 0
    ELSE LET c == CHOOSE n \in {ScaledFloor(v.f, 2), ScaledFloor(v.f, 2) + 1} :
                      IsDecimal(v.f, n, 2)
         IN  IF v.f.sgn = 1 THEN - c ELSE c

Abs(n) == IF n < 0 THEN - n ELSE n

RECURSIVE SumInt(_)
SumInt(xs) == IF xs = <<>> THEN 0 ELSE Head(xs) + SumInt(Tail(xs))

\* the mean of the amounts is not zero and every |amount - mean| / |mean| is at
\* most 5%, in exact arithmetic on hundredths
ExactlyStable(cents) ==
    /\ SumInt(cents) # 0
    /\ \A i \in 1..Len(cents) :
          20 * Abs(Len(cents) * cents[i] - SumInt(cents)) <= Abs(SumInt(cents))

\* C10: a group that otherwise qualifies (3 rows or more, every gap between 28
\* and 32 days) is flagged exactly when its mean amount is not zero and every
\* member deviates from the mean by at most 5%, the bound included.
AmountStability ==
    (Detected /\ HasCol(out.df, ColLibelleSimplifie)) =>
        \A r \in 1..Len(out.df.data) :
            LET label == Col(out.df, ColLibelleSimplifie)[r]
                cents == Tuple([i \in 1..Len(ResultGroup(label)) |->
                             Cents(Col(out.df, ColMontant)[ResultGroup(label)[i]])])
            IN  (~IsNA(label) /\ SharedBy(label) >= 3 /\ IsMonthly(ResultDates(label)))
                    => (Col(out.df, ColTypeBudget)[r] = Recurrente <=> ExactlyStable(cents))

\* What the detector does keep: a flagged group has a non-zero mean and no
\* member further than 5% from it.
FlaggedIsStable ==
    (Detected /\ HasCol(out.df, ColLibelleSimplifie)) =>
        \A r \in 1..Len(out.df.data) :
            LET label == Col(out.df, ColLibelleSimplifie)[r]
                cents == Tuple([i \in 1..Len(ResultGroup(label)) |->
                             Cents(Col(out.df, ColMontant)[ResultGroup(label)[i]])])
            IN  Col(out.df, ColTypeBudget)[r] = Recurrente => ExactlyStable(cents)

\* the day numbers of the dated rows of the result that carry label
DatedOrdinals(label) ==
    {Ordinal(ResultDates(label)[i]) :
        i \in {j \in 1..Len(ResultDates(label)) : ResultDates(label)[j].k = "ts"}}

\* the gaps in days between the members of the group of label that follow each
\* other by operation date; two members dated the same day are 0 days apart
GapsByDate(label) ==
    {b - a : <<a, b>> \in {p \in DatedOrdinals(label) \X DatedOrdinals(label) :
                 /\ p[1] < p[2]
                 /\ ~\E c \in DatedOrdinals(label) : p[1] < c /\ c < p[2]}}
    \cup (IF \E i, j \in 1..Len(ResultDates(label)) :
                /\ i < j
                /\ ResultDates(label)[i].k = "ts"
                /\ ResultDates(label)[i] = ResultDates(label)[j]
          THEN {0} ELSE {})

\* C11: a group is flagged Recurrente only if every gap in days between members
\* that follow each other by operation date lies in 28..32; one gap of 27 days
\* or less, or of 33 days or more, leaves every member of the group Ponctuel.
IntervalRegularity ==
    (Detected /\ HasCol(out.df, ColLibelleSimplifie)) =>
        \A r \in 1..Len(out.df.data) :
            LET label == Col(out.df, ColLibelleSimplifie)[r]
            IN  (~IsNA(label) /\ \E g \in GapsByDate(label) : g <= 27 \/ g >= 33)
                    => Col(out.df, ColTypeBudget)[r] = Ponctuel

\* a group of three rows with stable amounts which only a gap of 27 or 33 days
\* keeps from the flag
IntervalRegularityWitness ==
    /\ Detected
    /\ HasCol(out.df, ColLibelleSimplifie)
    /\ \E r \in 1..Len(out.df.data) :
          LET label == Col(out.df, ColLibelleSimplifie)[r]
          IN  /\ ~IsNA(label)
              /\ SharedBy(label) >= 3
              /\ ~FIsZero(Mean(ResultAmounts(label)))
              /\ \A i \in 1..Len(ResultAmounts(label)) :
                    WithinTolerance(ResultAmounts(label)[i], Mean(ResultAmounts(label)))
              /\ GapsByDate(label) \subseteq 27..33
              /\ GapsByDate(label) \cap {27, 33} # {}
              /\ Col(out.df, ColTypeBudget)[r] = Ponctuel

\* the budget kinds the rows of the input batch carried before the call
PriorBudget(r) == RowGet(inp.df, r, ColTypeBudget, None)

\* C12: after detect, every member of every group of at least 3 rows whose
\* amounts are within 5% of their non-zero mean and whose gaps all lie in 28..32
\* days is Recurrente, and the budget kind of each row is decided by this run
\* alone: Recurrente when its group passes, Ponctuel otherwise, whatever the row
\* carried in the input.
RecurrenceAssignment ==
    (Detected /\ HasCol(out.df, ColLibelleSimplifie)) =>
        \A r \in 1..Len(out.df.data) :
            LET label == Col(out.df, ColLibelleSimplifie)[r]
                cents == Tuple([i \in 1..Len(ResultGroup(label)) |->
                             Cents(Col(out.df, ColMontant)[ResultGroup(label)[i]])])
                passes == /\ ~IsNA(label)
                          /\ SharedBy(label) >= 3
                          /\ ExactlyStable(cents)
                          /\ GapsByDate(label) \subseteq 28..32
            IN  Col(out.df, ColTypeBudget)[r] = IF passes THEN Recurrente ELSE Ponctuel

\* What the detector does keep: a prior budget kind never survives the call; a
\* row is Recurrente only when the detector's tests flag its group in this run.
PriorBudgetReplaced ==
    Detected =>
        \A r \in 1..Len(out.df.data) :
            /\ Col(out.df, ColTypeBudget)[r] \in {Recurrente, Ponctuel}
            /\ Col(out.df, ColTypeBudget)[r] = Recurrente =>
                  /\ HasCol(out.df, ColLibelleSimplifie)
                  /\ ~IsNA(Col(out.df, ColLibelleSimplifie)[r])
                  /\ GroupIsRecurrent(ResultAmounts(Col(out.df, ColLibelleSimplifie)[r]),
                                      ResultDates(Col(out.df, ColLibelleSimplifie)[r]))

PriorBudgetReplacedWitness ==
    /\ Detected
    /\ \E r \in 1..Len(inp.df.data) : PriorBudget(r) = Recurrente
    /\ \A r \in 1..Len(out.df.data) : Col(out.df, ColTypeBudget)[r] = Ponctuel

\* the months, counted from year 0, of the dated rows of the group of label
MonthsOf(label) ==
    {12 * ResultDates(label)[i].y + ResultDates(label)[i].m :
        i \in {j \in 1..Len(ResultDates(label)) : ResultDates(label)[j].k = "ts"}}

\* every member of the group of label is dated the 1st of a month, and the
\* months are consecutive, one member a month
FirstsOfConsecutiveMonths(label) ==
    /\ \A i \in 1..Len(ResultDates(label)) :
          ResultDates(label)[i].k = "ts" /\ ResultDates(label)[i].d = 1
    /\ Cardinality(MonthsOf(label)) = Len(ResultDates(label))
    /\ \A a, b \in MonthsOf(label) : b - a < Len(ResultDates(label))

\* C14: a group of at least 3 rows with one simplified label, amounts all within
\* 5% of their non-zero mean and dated the 1st of consecutive months is flagged
\* Recurrente; a group with a date 20 days after its predecessor is left
\* entirely Ponctuel.
MonthlySeriesRecognised ==
    (Detected /\ HasCol(out.df, ColLibelleSimplifie)) =>
        \A r \in 1..Len(out.df.data) :
            LET label == Col(out.df, ColLibelleSimplifie)[r]
                cents == Tuple([i \in 1..Len(ResultGroup(label)) |->
                             Cents(Col(out.df, ColMontant)[ResultGroup(label)[i]])])
            IN  ~IsNA(label) =>
                  /\ (SharedBy(label) >= 3 /\ ExactlyStable(cents)
                        /\ FirstsOfConsecutiveMonths(label))
                       => Col(out.df, ColTypeBudget)[r] = Recurrente
                  /\ 20 \in GapsByDate(label) => Col(out.df, ColTypeBudget)[r] = Ponctuel

\* the 1st of the month that is k months after month m of year y
FirstOfMonth(y, m, k) == Timestamp(y + ((m - 1 + k) \div 12), ((m - 1 + k) % 12) + 1, 1)

\* What the detector does keep: the 1sts of consecutive months, for every start
\* month of a leap year and of the years around it, pass the interval test, and
\* a group so dated is flagged when the amount test of the code passes; a gap of
\* 20 days leaves the group Ponctuel.
MonthlyDatesRecognised ==
    /\ \A y \in 2023..2025 : \A m \in 1..12 :
          IsMonthly(<<FirstOfMonth(y, m, 0), FirstOfMonth(y, m, 1),
                      FirstOfMonth(y, m, 2), FirstOfMonth(y, m, 3)>>)
    /\ (Detected /\ HasCol(out.df, ColLibelleSimplifie)) =>
          \A r \in 1..Len(out.df.data) :
              LET label == Col(out.df, ColLibelleSimplifie)[r]
              IN  ~IsNA(label) =>
                    /\ (SharedBy(label) >= 3
                          /\ ~FIsZero(Mean(ResultAmounts(label)))
                          /\ \A i \in 1..Len(ResultAmounts(label)) :
                                WithinTolerance(ResultAmounts(label)[i], Mean(ResultAmounts(label)))
                          /\ FirstsOfConsecutiveMonths(label))
                         => Col(out.df, ColTypeBudget)[r] = Recurrente
                    /\ 20 \in GapsByDate(label) => Col(out.df, ColTypeBudget)[r] = Ponctuel

\* the orders in which the rows of a batch of n rows can be handed to the detector
RowOrders(n) == {p \in [1..n -> 1..n] : \A i, j \in 1..n : i # j => p[i] # p[j]}

\* the frame with its rows in the order p
Permuted(df, p) == [df EXCEPT !.data = Tuple([i \in 1..Len(df.data) |-> df.data[p[i]]])]

\* the number of rows of df equal to row, budget kind included
RowCount(df, row) == Cardinality({i \in 1..Len(df.data) : df.data[i] = row})

\* C13: for any batch and any permutation of its rows, detect assigns every row
\* the same budget kind: the rows of the result, with their budget kinds, are
\* the same whatever the order of the input rows.
OrderIndependence ==
    Detected =>
        \A p \in RowOrders(Len(inp.df.data)) :
            \A order \in DetectOrders(Permuted(inp.df, p)) :
                \A row \in Range(out.df.data) :
                    RowCount(DetectRecurrences(Permuted(inp.df, p), order), row)
                        = RowCount(out.df, row)

\* What the detector does keep: the budget kinds of a batch in which every row
\* has an operation date do not depend on the row order.
DatedOrderIndependence ==
    (Detected /\ \A r \in 1..Len(out.df.data) :
                    RowGet(out.df, r, ColDateOperation, NaT).k = "ts") =>
        \A p \in RowOrders(Len(inp.df.data)) :
            \A order \in DetectOrders(Permuted(inp.df, p)) :
                \A row \in Range(out.df.data) :
                    RowCount(DetectRecurrences(Permuted(inp.df, p), order), row)
                        = RowCount(out.df, row)

\* C26: a group that has a member without an operation date is never flagged
\* Recurrente: every row of such a group keeps the budget kind Ponctuel.
AbsentDatesStayPunctual ==
    (Detected /\ HasCol(out.df, ColLibelleSimplifie) /\ HasCol(out.df, ColDateOperation)) =>
        \A r \in 1..Len(out.df.data) :
            LET label == Col(out.df, ColLibelleSimplifie)[r]
            IN  (~IsNA(label) /\ \E i \in 1..Len(ResultDates(label)) :
                                     ResultDates(label)[i].k # "ts")
                    => Col(out.df, ColTypeBudget)[r] = Ponctuel

\* What does hold: a flagged group with members without a date has no gap
\* outside 28..32 days between the dated members that follow each other in the
\* sorted frame, and a group flagged with fewer than two dated members exists
\* only because no gap was measured at all.
AbsentDatesAddNoGap ==
    (Detected /\ HasCol(out.df, ColLibelleSimplifie) /\ HasCol(out.df, ColDateOperation)) =>
        \A r \in 1..Len(out.df.data) :
            LET label == Col(out.df, ColLibelleSimplifie)[r]
            IN  (~IsNA(label) /\ Col(out.df, ColTypeBudget)[r] = Recurrente)
                    => /\ Len(ResultGroup(label)) >= MinGroupSize
                       /\ \A g \in GapsByDate(label) : MinGapDays <= g /\ g <= MaxGapDays

(***************************************************************************)
(* SpecCategorize: the categorizer applied to frames and rule sets         *)
(***************************************************************************)
MaxRows == 2

MaxCategories == 2

MaxKeywords == 2

\* raw labels: one that holds E.LECLERC in another case, one that holds it with
\* another character in place of the '.', one that holds two keywords, one that
\* holds none, and a missing label
LabelCells ==
    {Str(<<"C", "a", "r", "t", "e", " ", "e", ".", "l", "e", "c", "l", "e", "r", "c">>),
     Str(<<"C", "A", "R", "T", "E", " ", "E", "S", "L", "E", "C", "L", "E", "R", "C">>),
     Str(<<"E", ".", "L", "E", "C", "L", "E", "R", "C", " ", "N", "E", "T", "F", "L", "I", "X">>),
     Str(<<"L", "O", "Y", "E", "R">>),
     NaN}

\* categories a row may carry before the call
CategoryCells == {NaN, Str(<<>>), Str(<<"C", "o", "u", "r", "s", "e", "s">>), Str(<<"S", "a", "n", "t", "e">>)}

RuleCategories == {<<"C", "o", "u", "r", "s", "e", "s">>, <<"L", "o", "i", "s", "i", "r", "s">>}

Keywords == {<<"E", ".", "L", "E", "C", "L", "E", "R", "C">>, <<"N", "E", "T", "F", "L", "I", "X">>, <<"N", "E", "T", "F", "L", "I", "X", " ", "(", "F", "R">>}

Distinct(s) == \A i, j \in 1..Len(s) : i # j => s[i] # s[j]

KeywordLists == {ks \in SeqsUpTo(Keywords, MaxKeywords) : ks # <<>> /\ Distinct(ks)}

\* what get_rules can return: no category twice, no keyword twice, no category
\* without a keyword
RuleSets ==
    {rs \in SeqsUpTo([category : RuleCategories, keywords : KeywordLists], MaxCategories) :
        /\ Distinct(Tuple([i \in 1..Len(rs) |-> rs[i].category]))
        /\ Distinct(RulePairs(rs))
        /\ Distinct(Tuple([i \in 1..Len(RulePairs(rs)) |-> RulePairs(rs)[i].keyword]))}

CategorizeFrames ==
    UNION {{[columns |-> <<ColLibelleOperation, ColCategorie>>,
             data    |-> Tuple([r \in 1..n |-> <<labels[r], cats[r]>>])] :
                labels \in [1..n -> LabelCells], cats \in [1..n -> CategoryCells]}
           \cup
           {[columns |-> <<ColLibelleOperation>>,
             data    |-> Tuple([r \in 1..n |-> <<labels[r]>>])] : labels \in [1..n -> LabelCells]} :
          n \in 1..MaxRows}

InitCategorize ==
    /\ \E df \in CategorizeFrames : \E rs \in RuleSets : \E force \in BOOLEAN :
          inp = [op |-> "categorize", df |-> df, rules |-> rs, force |-> force]
    /\ out = Idle
    /\ categories = <<>> /\ rules = <<>> /\ ledger = <<>>
    /\ session = Idle /\ last = Idle /\ imported = {} /\ steps = 0

\* _categorize_transactions(df, force), get_rules returning inp.rules
Categorize ==
    /\ inp.op = "categorize" /\ out = Idle
    /\ LET res == CategorizeTransactions(inp.df, inp.rules, inp.force)
       IN  out' = [k |-> "categorized", raised |-> res.raised, df |-> res.df]
    /\ UNCHANGED <<categories, rules, ledger, session, last, imported, steps, inp>>

NextCategorize == Categorize

SpecCategorize == InitCategorize /\ [][NextCategorize]_vars

(***************************************************************************)
(* Properties of the categorizer                                           *)
(***************************************************************************)
Categorized == inp.op = "categorize" /\ out # Idle

Returned == Categorized /\ ~out.raised

\* the category cell of row r before the call, None in a frame without the column
PriorCell(r) == RowGet(inp.df, r, ColCategorie, None)

\* the same, an absent category being read as the empty text
PriorText(r) == IF IsNA(PriorCell(r)) THEN Str(<<>>) ELSE PriorCell(r)

NewCell(r) == Col(out.df, ColCategorie)[r]

Candidate(r) == inp.force \/ PriorText(r) = Str(<<>>)

\* the positions, in rule iteration order, of the categories with a keyword that
\* matches the label of row r
Matching(r) ==
    {c \in 1..Len(inp.rules) :
        \E j \in 1..Len(inp.rules[c].keywords) :
            StrContains(Col(inp.df, ColLibelleOperation)[r], inp.rules[c].keywords[j])}

Last(S) == CHOOSE c \in S : \A d \in S : d <= c

Reverse(s) == Tuple([i \in 1..Len(s) |-> s[Len(s) + 1 - i]])

\* C3: after categorize, in either mode, every candidate row whose label is
\* matched by a keyword of at least one category carries the last category, in
\* rule iteration order, that has a matching keyword; and the order of the
\* keywords inside the categories does not change the result.
LastCategoryWins ==
    Categorized =>
        /\ ~out.raised =>
              \A r \in 1..Len(inp.df.data) :
                  (Candidate(r) /\ Matching(r) # {})
                      => NewCell(r) = Str(inp.rules[Last(Matching(r))].category)
        /\ LET turned == Tuple([c \in 1..Len(inp.rules) |->
                            [inp.rules[c] EXCEPT !.keywords = Reverse(@)]])
               again  == CategorizeTransactions(inp.df, turned, inp.force)
           IN  again.raised = out.raised /\ again.df = out.df

\* a candidate row matched by two categories carries the second one
LastCategoryWinsWitness ==
    /\ Returned
    /\ \E r \in 1..Len(inp.df.data) :
          /\ Candidate(r)
          /\ Cardinality(Matching(r)) = 2
          /\ NewCell(r) = Str(inp.rules[2].category)
          /\ NewCell(r) # PriorCell(r)

\* C4, as the categorizer keeps it: without force a row whose category was not
\* empty keeps it; with force every row is a candidate, so that a matched row
\* carries the last matching category whatever it carried before; and in both
\* modes a row matched by no keyword keeps the category it had, an absent
\* category being returned as the empty text.
CategorizerFrame ==
    Returned =>
        \A r \in 1..Len(inp.df.data) :
            /\ (~inp.force /\ PriorText(r) # Str(<<>>)) => NewCell(r) = PriorCell(r)
            /\ (inp.force /\ Matching(r) # {})
                   => NewCell(r) = Str(inp.rules[Last(Matching(r))].category)
            /\ Matching(r) = {} => NewCell(r) = PriorText(r)

\* without force, a row that carries a category and whose label a rule of another
\* category matches keeps its category
CategorizerFrameWitness ==
    /\ Returned
    /\ ~inp.force
    /\ \E r \in 1..Len(inp.df.data) :
          /\ PriorText(r) # Str(<<>>)
          /\ Matching(r) # {}
          /\ PriorCell(r) # Str(inp.rules[Last(Matching(r))].category)
          /\ NewCell(r) = PriorCell(r)

\* C4 as stated: without force a row whose category was not empty keeps it, with
\* force every row is a candidate, and in both modes a row matched by no keyword
\* keeps exactly the category it had before the call.
CategorizerFrameExact ==
    Returned =>
        \A r \in 1..Len(inp.df.data) :
            /\ (~inp.force /\ PriorText(r) # Str(<<>>)) => NewCell(r) = PriorCell(r)
            /\ (inp.force /\ Matching(r) # {})
                   => NewCell(r) = Str(inp.rules[Last(Matching(r))].category)
            /\ (Matching(r) = {} /\ HasCol(inp.df, ColCategorie)) => NewCell(r) = PriorCell(r)

\* the keyword read as plain text found in the label, whatever the case
LiteralContains(cell, keyword) ==
    /\ cell.k = "str"
    /\ \E i \in 1..(Len(cell.s) - Len(keyword) + 1) :
          \A j \in 1..Len(keyword) : LowerChar(keyword[j]) = LowerChar(cell.s[i + j - 1])

LiteralMatching(r) ==
    {c \in 1..Len(inp.rules) :
        \E j \in 1..Len(inp.rules[c].keywords) :
            LiteralContains(Col(inp.df, ColLibelleOperation)[r], inp.rules[c].keywords[j])}

\* C5: a keyword matches a row exactly when the label holds the keyword's
\* characters as a contiguous substring, letter case ignored, and no keyword
\* makes categorize fail: on a frame whose labels are texts the call returns,
\* and each candidate row carries the last category with a keyword found
\* literally in its label, every other row its prior category.
LiteralSubstringMatch ==
    (Categorized /\ ~NotStrings(Col(inp.df, ColLibelleOperation))) =>
        /\ ~out.raised
        /\ \A r \in 1..Len(inp.df.data) :
              NewCell(r) = IF Candidate(r) /\ LiteralMatching(r) # {}
                           THEN Str(inp.rules[Last(LiteralMatching(r))].category)
                           ELSE PriorText(r)

(***************************************************************************)
(* SpecFingerprint: one statement line exported under two header styles    *)
(***************************************************************************)
Accounts == {<<"P", "e", "r", "s", "o">>, <<"C", "o", "m", "m", "u", "n">>}

DateCells == {Str(<<"0", "5", "/", "0", "1", "/", "2", "0", "2", "4">>), Str(<<"3", "1", "/", "0", "2", "/", "2", "0", "2", "4">>), NaN}

RawLabelCells == {Str(<<"C", "B", " ", "C", "A", "R", "R", "E", "F", "O", "U", "R">>), NaN}

DebitCells == {Str(<<"-", "1", "2", ",", "5">>), Str(<<"-", "1", "2">>), NaN}

CreditCells == {Str(<<"+", "1", "0", "0">>), Str(<<"1", "2", ",", "5">>), NaN}

HeaderStyles == {"asis", "upper", "lower", "doubled", "trailing"}

UpperChar(c) ==
    IF \E i \in 1..26 : LowerChars[i] = c
    THEN UpperChars[CHOOSE i \in 1..26 : LowerChars[i] = c]
    ELSE c

\* a column header as an export writes it: in capitals, in small letters, with
\* each space doubled, or with a space after the name
StyleHeader(style, header) ==
    CASE style = "asis"     -> header
      [] style = "upper"    -> Tuple([i \in 1..Len(header) |-> UpperChar(header[i])])
      [] style = "lower"    -> Lower(header)
      [] style = "doubled"  -> Replace(header, " ", <<" ", " ">>)
      [] style = "trailing" -> Append(header, " ")

\* the raw table of one statement line under a header style
LineTable(style, line) ==
    [columns |-> Tuple([i \in 1..4 |->
                    StyleHeader(style, <<HeaderDate, HeaderLabel, HeaderDebit, HeaderCredit>>[i])]),
     data    |-> <<line>>]

InitFingerprint ==
    /\ \E date \in DateCells, label \in RawLabelCells, debit \in DebitCells,
          credit \in CreditCells, a \in HeaderStyles, b \in HeaderStyles, account \in Accounts :
          inp = [op |-> "fingerprint", line |-> <<date, label, debit, credit>>,
                 a |-> a, b |-> b, account |-> account]
    /\ out = Idle
    /\ categories = <<>> /\ rules = <<>> /\ ledger = <<>>
    /\ session = Idle /\ last = Idle /\ imported = {} /\ steps = 0

\* the fingerprint process_transactions_from_df gives the line in each table
Fingerprint ==
    /\ inp.op = "fingerprint" /\ out = Idle
    /\ out' = [k |-> "fingerprints",
               a |-> Fingerprints(LineTable(inp.a, inp.line), inp.account, <<>>, <<1>>)[1],
               b |-> Fingerprints(LineTable(inp.b, inp.line), inp.account, <<>>, <<1>>)[1]]
    /\ UNCHANGED <<categories, rules, ledger, session, last, imported, steps, inp>>

NextFingerprint == Fingerprint

SpecFingerprint == InitFingerprint /\ [][NextFingerprint]_vars

\* C2: two raw tables that hold the same statement line and whose column headers
\* differ only in letter case or in the number or position of spaces give the
\* line the same fingerprint under the same account type.
HeaderStyleInvariance ==
    (inp.op = "fingerprint" /\ out # Idle) => out.a = out.b

\* Letter case alone is harmless: headers that differ only in letter case give
\* the line the same fingerprint.
HeaderCaseInvariance ==
    (inp.op = "fingerprint" /\ out # Idle /\ {inp.a, inp.b} \subseteq {"asis", "upper", "lower"})
        => out.a = out.b

(***************************************************************************)
(* Spec: the application.  Every handler runs in a rerun of its page,      *)
(* which starts with ensure_data_loaded; the database outlives the         *)
(* handlers, the session holds the records last read from it.              *)
(***************************************************************************)
\* CATEGORIZATION_RULES, two of its categories
InitialRules ==
    <<[category |-> <<"C", "o", "u", "r", "s", "e", "s">>, keywords |-> <<<<"C", "A", "R", "R", "E", "F", "O", "U", "R">>, <<"E", ".", "L", "E", "C", "L", "E", "R", "C">>>>],
      [category |-> <<"L", "o", "i", "s", "i", "r", "s">>, keywords |-> <<<<"N", "E", "T", "F", "L", "I", "X">>>>]>>

\* names typed in the form "Nom de la nouvelle categorie"
NewCategoryNames == {<<"A", "b", "o", "n", "n", "e", "m", "e", "n", "t", "s">>, <<"V", "i", "r", "e", "m", "e", "n", "t", "s">>}

\* keywords typed in the form "Nouveau mot-cle a associer"
KeywordInputs == {<<"D", "U", "P", "O", "N", "T">>, <<"N", "E", "T", "F", "L", "I", "X", " ", "(", "F", "R">>}

\* the handlers run in one session
MaxSteps == 4

\* uploaded statements: a card payment and a transfer; a direct debit that the
\* export lists twice
ImportTables ==
    {[columns |-> <<HeaderDate, HeaderSimple, HeaderLabel, HeaderDebit, HeaderCredit>>,
      data    |-> <<<<Str(<<"0", "5", "/", "0", "1", "/", "2", "0", "2", "4">>), Str(<<"C", "A", "R", "R", "E", "F", "O", "U", "R">>), Str(<<"C", "B", " ", "C", "A", "R", "R", "E", "F", "O", "U", "R">>), Str(<<"-", "1", "2", ",", "5">>), NaN>>,
                    <<Str(<<"0", "6", "/", "0", "1", "/", "2", "0", "2", "4">>), Str(<<"D", "U", "P", "O", "N", "T">>), Str(<<"V", "I", "R", " ", "D", "U", "P", "O", "N", "T">>), NaN, Str(<<"+", "1", "0", "0">>)>>>>],
     [columns |-> <<HeaderDate, HeaderSimple, HeaderLabel, HeaderDebit, HeaderCredit>>,
      data    |-> <<<<Str(<<"0", "7", "/", "0", "1", "/", "2", "0", "2", "4">>), Str(<<"N", "E", "T", "F", "L", "I", "X">>), Str(<<"P", "R", "L", "V", " ", "N", "E", "T", "F", "L", "I", "X">>), Str(<<"-", "1", "0">>), NaN>>,
                    <<Str(<<"0", "7", "/", "0", "1", "/", "2", "0", "2", "4">>), Str(<<"N", "E", "T", "F", "L", "I", "X">>), Str(<<"P", "R", "L", "V", " ", "N", "E", "T", "F", "L", "I", "X">>), Str(<<"-", "1", "0">>), NaN>>>>]}

\* the editable columns of the grid
EditableColumns == {"categorie", "sous_categorie", "type_budget"}

\* st.session_state.selected_columns, as far as the editable columns go: the
\* default, and the default without the category
ShownChoices == {EditableColumns, EditableColumns \ {"categorie"}}

\* free text typed in a sous_categorie cell
SubCategoryInputs == {Str(<<"B", "i", "o">>)}

\* ensure_data_loaded: the session's records are read when it has none
EnsureDataLoaded(sess, rows) ==
    IF sess.loaded THEN sess ELSE [loaded |-> TRUE, rows |-> GetAll(rows)]

\* the state after the first run of a page: the rule store seeded, no record
Init ==
    /\ categories = SeedData(<<>>, <<>>, InitialRules)[1]
    /\ rules = SeedData(<<>>, <<>>, InitialRules)[2]
    /\ ledger = <<>>
    /\ session = EnsureDataLoaded([loaded |-> FALSE, rows |-> <<>>], <<>>)
    /\ last = [op |-> "start"]
    /\ imported = {} /\ steps = 0
    /\ inp = [op |-> "app"] /\ out = Idle

\* form "Ajouter la Categorie"
AddCategory(new_category_name) ==
    /\ inp.op = "app" /\ steps < MaxSteps
    /\ LET added == AddCategoryResult(categories, new_category_name)
       IN  /\ categories' = added[2]
           /\ last' = [op |-> "add_category", ok |-> added[1]]
    /\ session' = EnsureDataLoaded(session, ledger)
    /\ steps' = steps + 1
    /\ UNCHANGED <<rules, ledger, imported, inp, out>>

\* form "Ajouter la Regle"
AddRule(selected_category, new_keyword) ==
    /\ inp.op = "app" /\ steps < MaxSteps
    /\ selected_category \in GetAllCategories(categories)
    /\ LET added == AddRuleResult(categories, rules, selected_category, new_keyword)
       IN  /\ rules' = added[2]
           /\ last' = [op |-> "add_rule", ok |-> added[1]]
    /\ session' = EnsureDataLoaded(session, ledger)
    /\ steps' = steps + 1
    /\ UNCHANGED <<categories, ledger, imported, inp, out>>

\* button "Importer et Traiter": the records are processed, added, and the
\* session refreshed; an exception leaves the message of the error
Import(raw_df, account_type) ==
    /\ inp.op = "app" /\ steps < MaxSteps
    /\ \E new \in ProcessTransactionsFromDf(raw_df, account_type, GetRules(categories, rules)) :
          LET added == AddMany(ledger, new.transactions)
              again == <<raw_df, account_type>> \in imported
          IN  IF new.raised
              THEN /\ last' = [op |-> "import", raised |-> TRUE, inserted |-> 0,
                               again |-> again, before |-> ledger, rows |-> Len(raw_df.data),
                               stage |-> "process", done |-> 0, batch |-> {}]
                   /\ session' = EnsureDataLoaded(session, ledger)
                   /\ UNCHANGED <<ledger, imported>>
              ELSE \E done \in 0..Len(new.transactions) :
                   IF done < Len(new.transactions)
                   THEN \* executemany raises at record done + 1
                        /\ ledger' = CloseWithoutCommit(ledger,
                                         Pending(ledger, new.transactions, done))
                        /\ last' = [op |-> "import", raised |-> TRUE, inserted |-> 0,
                                    again |-> again, before |-> ledger, rows |-> Len(raw_df.data),
                                    stage |-> "insert", done |-> done,
                                    batch |-> Hashes(new.transactions)]
                        /\ session' = EnsureDataLoaded(session, ledger')
                        /\ UNCHANGED imported
                   ELSE /\ ledger' = added[1]
                        /\ last' = [op |-> "import", raised |-> FALSE, inserted |-> added[2],
                                    again |-> again, before |-> ledger, rows |-> Len(raw_df.data),
                                    stage |-> "done", done |-> done,
                                    batch |-> Hashes(new.transactions)]
                        /\ session' = [loaded |-> TRUE, rows |-> GetAll(added[1])]
                        /\ imported' = imported \cup {<<raw_df, account_type>>}
    /\ steps' = steps + 1
    /\ UNCHANGED <<categories, rules, inp, out>>

\* the same button with a file that pd.read_csv cannot read: the exception is
\* caught by the handler, which shows the error
ImportUnreadable ==
    /\ inp.op = "app" /\ steps < MaxSteps
    /\ last' = [op |-> "import", raised |-> TRUE, inserted |-> 0, again |-> FALSE,
                before |-> ledger, rows |-> 0, stage |-> "read", done |-> 0, batch |-> {}]
    /\ session' = EnsureDataLoaded(session, ledger)
    /\ steps' = steps + 1
    /\ UNCHANGED <<categories, rules, ledger, imported, inp, out>>

\* row.get(col) of a grid row: None for a column that is not displayed
GridGet(row, col, shown) == IF col \in shown THEN row[col] ELSE None

\* the values a cell editor of the grid can give
CellInputs(col) ==
    CASE col = "categorie"      -> {Str(c) : c \in GetAllCategories(categories)}
      [] col = "sous_categorie" -> SubCategoryInputs
      [] col = "type_budget"    -> {Ponctuel, Recurrente}

\* button "Sauvegarder les modifications" after one cell of the grid was edited
SaveEdits(i, shown, col, value) ==
    /\ inp.op = "app" /\ steps < MaxSteps
    /\ LET rows     == EnsureDataLoaded(session, ledger).rows
           original == [c \in EditableColumns |-> GridGet(rows[i], c, shown)]
           edited   == [original EXCEPT ![col] = value]
           hash_id  == rows[i].hash
           ledger1  == IF original["categorie"] # edited["categorie"]
                          \/ original["sous_categorie"] # edited["sous_categorie"]
                       THEN UpdateCategory(ledger, hash_id, edited["categorie"],
                                           edited["sous_categorie"])
                       ELSE ledger
           ledger2  == IF original["type_budget"] # edited["type_budget"]
                       THEN UpdateBudgetType(ledger1, hash_id, edited["type_budget"])
                       ELSE ledger1
       IN  /\ i \in 1..Len(rows)
           /\ col \in shown
           /\ original # edited
           /\ ledger' = ledger2
           /\ session' = [loaded |-> TRUE, rows |-> GetAll(ledger2)]
           /\ last' = [op |-> "save", hash |-> hash_id]
    /\ steps' = steps + 1
    /\ UNCHANGED <<categories, rules, imported, inp, out>>

\* a diff applied without its WHERE clause: every record gets each new category
RECURSIVE ApplyDiffEverywhere(_, _)
ApplyDiffEverywhere(rows, transactions_to_update) ==
    IF transactions_to_update = <<>> THEN rows
    ELSE ApplyDiffEverywhere(
             Tuple([i \in 1..Len(rows) |->
                 [rows[i] EXCEPT !.categorie = Head(transactions_to_update).categorie,
                                 !.sous_categorie = Str(<<>>)]]),
             Tail(transactions_to_update))

\* repo.update_category(hash, new_category, '') for each pair of the diff
RECURSIVE ApplyDiff(_, _)
ApplyDiff(rows, transactions_to_update) ==
    IF transactions_to_update = <<>> THEN rows
    ELSE ApplyDiff(UpdateCategory(rows, Head(transactions_to_update).hash,
                                  Head(transactions_to_update).categorie, Str(<<>>)),
                   Tail(transactions_to_update))

\* the categories of the forced categorization of the session's records
SweptCategories(all_transactions, rs) ==
    IF all_transactions = <<>> THEN <<>>
    ELSE Col(CategorizeTransactions(SweepFrame(all_transactions), rs, TRUE).df, ColCategorie)

\* button "Appliquer les regles a toutes les transactions"; prior tells whether
\* the handler before this one was a sweep that completed, and how many records
\* it updated
Sweep ==
    /\ inp.op = "app" /\ steps < MaxSteps
    /\ LET all_transactions == EnsureDataLoaded(session, ledger).rows
           rs    == GetRules(categories, rules)
           swept == RecategorizeAll(all_transactions, rs)
           prior == IF last.op = "sweep" /\ ~last.raised
                    THEN [swept |-> TRUE, changed |-> Len(last.diff)]
                    ELSE [swept |-> FALSE, changed |-> 0]
       IN  /\ last' = [op |-> "sweep", raised |-> swept.raised, diff |-> swept.diff,
                       before |-> all_transactions,
                       new |-> IF swept.raised THEN <<>> ELSE SweptCategories(all_transactions, rs),
                       prior |-> prior]
           /\ IF swept.raised \/ swept.diff = <<>>
              THEN /\ session' = EnsureDataLoaded(session, ledger)
                   /\ UNCHANGED ledger
              ELSE /\ ledger' = ApplyDiff(ledger, swept.diff)
                   /\ session' = [loaded |-> FALSE, rows |-> <<>>]
    /\ steps' = steps + 1
    /\ UNCHANGED <<categories, rules, imported, inp, out>>

\* the same button when an update_category of the loop raises after `done`
\* updates were committed: the handler ends there, del
\* st.session_state.transactions is not reached
SweepStopped(done) ==
    /\ inp.op = "app" /\ steps < MaxSteps
    /\ LET all_transactions == EnsureDataLoaded(session, ledger).rows
           swept == RecategorizeAll(all_transactions, GetRules(categories, rules))
       IN  /\ ~swept.raised
           /\ done < Len(swept.diff)
           /\ ledger' = ApplyDiff(ledger, SubSeq(swept.diff, 1, done))
           /\ session' = EnsureDataLoaded(session, ledger)
           /\ last' = [op |-> "sweep_stopped", diff |-> swept.diff, done |-> done]
    /\ steps' = steps + 1
    /\ UNCHANGED <<categories, rules, imported, inp, out>>

\* a page is opened or rerun and no button is pressed
LoadPage ==
    /\ inp.op = "app"
    /\ ~session.loaded
    /\ session' = EnsureDataLoaded(session, ledger)
    /\ UNCHANGED <<categories, rules, ledger, last, imported, steps, inp, out>>

Next ==
    \/ \E name \in NewCategoryNames : AddCategory(name)
    \/ \E category \in GetAllCategories(categories), keyword \in KeywordInputs :
          AddRule(category, keyword)
    \/ \E raw_df \in ImportTables, account_type \in Accounts : Import(raw_df, account_type)
    \/ \E i \in 1..Len(ledger), shown \in ShownChoices, col \in EditableColumns :
          \E value \in CellInputs(col) : SaveEdits(i, shown, col, value)
    \/ Sweep
    \/ \E done \in 0..Len(ledger) : SweepStopped(done)
    \/ LoadPage

Spec == Init /\ [][Next]_vars

(***************************************************************************)
(* Properties of the application                                           *)
(***************************************************************************)
Imported == inp.op = "app" /\ last.op = "import"

Swept == inp.op = "app" /\ last.op = "sweep"

\* C1: once a table has been imported under an account, importing the same
\* table under the same account again inserts no record and leaves the ledger
\* as it was, whatever rules were added, cells edited or sweeps run in between.
IdempotentReimport ==
    (Imported /\ last.again) => (last.inserted = 0 /\ ledger = last.before)

\* a second import of a table that completed, on a ledger whose records were
\* edited or swept after the first one
IdempotentReimportWitness ==
    /\ Imported /\ last.again /\ ~last.raised
    /\ \E i \in 1..Len(ledger) : ledger[i].sous_categorie # None

\* the categories get_rules iterates, in order
RuleOrder ==
    LET rs == GetRules(categories, rules)
    IN  Tuple([i \in 1..Len(rs) |-> rs[i].category])

\* C6: the order in which get_rules iterates the categories is the order in
\* which the categories were inserted (add_category, seed_data), whatever the
\* order in which keywords were attached to them.
RuleOrderIsInsertionOrder ==
    inp.op = "app" =>
        RuleOrder = SelectSeq(categories, LAMBDA c : c \in Range(RuleOrder))

\* no category: absent or the empty text
NoCategory(v) == v = None \/ v = Str(<<>>)

\* the category did not change: the same text, or none before and none after
SameCategory(old, new) == old = new \/ (NoCategory(old) /\ NoCategory(new))

\* C7: the diff of a sweep holds exactly one pair (hash, new category) for each
\* record whose category after the forced categorization differs from the one
\* before, and no pair for any other record; a record that had no category
\* (absent or empty) and that no rule matches is not in the diff, and an empty
\* ledger gives an empty diff.
SweepDiffExact ==
    (Swept /\ ~last.raised) =>
        /\ \A j \in 1..Len(last.diff) :
              \E i \in 1..Len(last.before) : last.before[i].hash = last.diff[j].hash
        /\ \A i \in 1..Len(last.before) :
              LET pairs == {j \in 1..Len(last.diff) : last.diff[j].hash = last.before[i].hash}
              IN  IF SameCategory(last.before[i].categorie, last.new[i])
                  THEN pairs = {}
                  ELSE /\ Cardinality(pairs) = 1
                       /\ \A j \in pairs : last.diff[j].categorie = last.new[i]

\* C8: a sweep that follows a completed sweep whose diff was applied, with no
\* other handler in between, completes with an empty diff.
SecondSweepEmpty ==
    (Swept /\ last.prior.swept) => (~last.raised /\ last.diff = <<>>)

\* a second sweep after a sweep that updated records
SecondSweepEmptyWitness ==
    Swept /\ last.prior.swept /\ last.prior.changed > 0 /\ ~last.raised

(***************************************************************************)
(* InsightsAnalyzer: InsightsService                                        *)
(* The analyses read the frame ensure_data_loaded builds from the records   *)
(* of the session: one row per record, in the order of the records.  The    *)
(* amounts of a record are float64 values of at most two decimals; the      *)
(* statistics of find_large_purchases are computed on their hundredths, in  *)
(* exact arithmetic.                                                        *)
(***************************************************************************)
\* df['montant'] < 0 on one record: False for a missing amount
IsExpense(t) == t.montant.k = "float" /\ t.montant.f.sgn = 1 /\ ~FIsZero(t.montant.f)

\* the filter without the test of the sign
RecurrentExpensesAnySign(rows) ==
    SelectSeq(rows, LAMBDA t : t.type_budget = Recurrente)

\* recurrent_expenses
RecurrentExpenses(rows) ==
    SelectSeq(rows, LAMBDA t : t.type_budget = Recurrente /\ IsExpense(t))

\* the order of two ISO dates as texts: the first character that differs decides
IsoLess(a, b) ==
    \E i \in 1..Len(a) :
        /\ \A j \in 1..(i - 1) : a[j] = b[j]
        /\ IsDigit(a[i]) /\ IsDigit(b[i]) /\ DigitVal(a[i]) < DigitVal(b[i])

\* ('date_op', 'max') of a group whose records all have a date
MaxDate(dates) ==
    CHOOSE d \in Range(dates) : \A e \in Range(dates) : ~IsoLess(d.s, e.s)

\* the row of subscription_summary for the records group of one label
SummaryRow(label, group) ==
    [libelle_simple      |-> label,
     montant_moyen       |-> FloatV(FAbs(Mean(Tuple([i \in 1..Len(group) |-> group[i].montant.f])))),
     nombre_de_paiements |-> Len(group),
     derniere_date       |-> MaxDate(Tuple([i \in 1..Len(group) |-> group[i].date_op]))]

\* groupby('libelle_simple').agg(...): one row per label, a record without a
\* label being in no group
SubscriptionSummary(expenses) ==
    {SummaryRow(label, SelectSeq(expenses, LAMBDA t : t.libelle_simple = label)) :
        label \in {expenses[i].libelle_simple : i \in 1..Len(expenses)} \ {None}}

\* sort_values('montant_moyen', ascending=False): the orders of the set of rows
\* in which no row follows one of a smaller mean; rows of equal means come in
\* any order
SortedDescending(summary) ==
    {s \in [1..Cardinality(summary) -> summary] :
        /\ \A i, j \in 1..Cardinality(summary) : i # j => s[i] # s[j]
        /\ \A i, j \in 1..Cardinality(summary) :
              i < j => FLe(s[j].montant_moyen.f, s[i].montant_moyen.f)}

\* find_recurring_subscriptions: the frames it may return
FindRecurringSubscriptions(rows) ==
    IF rows = <<>> \/ RecurrentExpenses(rows) = <<>> THEN {<<>>}
    ELSE {Tuple(s) : s \in SortedDescending(SubscriptionSummary(RecurrentExpenses(rows)))}

\* expenses_df: the records of negative amount, with their depense in hundredths
ExpensesDf(rows) ==
    Tuple([i \in 1..Len(SelectSeq(rows, IsExpense)) |->
        [hash           |-> SelectSeq(rows, IsExpense)[i].hash,
         date_op        |-> SelectSeq(rows, IsExpense)[i].date_op,
         libelle_simple |-> SelectSeq(rows, IsExpense)[i].libelle_simple,
         categorie      |-> SelectSeq(rows, IsExpense)[i].categorie,
         montant        |-> SelectSeq(rows, IsExpense)[i].montant,
         depense        |-> Abs(Cents(SelectSeq(rows, IsExpense)[i].montant))]])

\* the expenses of one category, by position in expenses_df
CategoryGroup(expenses, categorie) ==
    SelectSeq(expenses, LAMBDA t : t.categorie = categorie)

\* the depense column of a group
Depenses(group) == Tuple([i \in 1..Len(group) |-> group[i].depense])

\* the sum of the squares of n * depense - sum over a group: n * n * (n - 1)
\* times the variance (std has ddof = 1)
RECURSIVE SquaredDeviations(_, _, _)
SquaredDeviations(deps, n, sum) ==
    IF deps = <<>> THEN 0
    ELSE (n * Head(deps) - sum) * (n * Head(deps) - sum) + SquaredDeviations(Tail(deps), n, sum)

\* depense > mean + std_dev_threshold * std for a group of n expenses of the
\* given sum and squared deviations; the std of a single expense is filled by 0
ExceedsStatistics(dep, n, sum, squares, std_dev_threshold) ==
    /\ n * dep - sum > 0
    /\ n > 1 => (n * dep - sum) * (n * dep - sum) * (n - 1)
                   > std_dev_threshold * std_dev_threshold * squares

\* is_large on one expense, given the depense column of its category
IsLarge(t, deps, std_dev_threshold) ==
    ExceedsStatistics(t.depense, Len(deps), SumInt(deps),
                      SquaredDeviations(deps, Len(deps), SumInt(deps)), std_dev_threshold)

\* the floor of a purchase worth reporting, in euros
SignificantFloor == 20

\* no floor
IsSignificantAlways(t) == TRUE

\* is_significant on one expense: depense > 20
IsSignificant(t) == t.depense > 100 * SignificantFloor

\* the rows of expenses_with_stats: the expenses whose category has statistics,
\* a record without a category being in no group
ExpensesWithStats(expenses) ==
    SelectSeq(expenses, LAMBDA t : ~IsNA(t.categorie))

\* one row of large_purchases_df
LargeRow(t, group) ==
    [hash |-> t.hash, date_op |-> t.date_op, libelle_simple |-> t.libelle_simple,
     categorie |-> t.categorie, depense |-> FloatV(FAbs(t.montant.f)),
     mean |-> FloatV(FAbs(Mean(Tuple([i \in 1..Len(group) |-> group[i].montant.f]))))]

\* the rows of expenses_with_stats that are large and significant
Flagged(merged, std_dev_threshold) ==
    SelectSeq(merged, LAMBDA t :
        /\ IsLarge(t, Depenses(CategoryGroup(merged, t.categorie)), std_dev_threshold)
        /\ IsSignificant(t))

\* large_purchases_df
LargePurchases(merged, flagged) ==
    Tuple([i \in 1..Len(flagged) |->
        LargeRow(flagged[i], CategoryGroup(merged, flagged[i].categorie))])

\* find_large_purchases
FindLargePurchases(rows, std_dev_threshold) ==
    IF rows = <<>> \/ SelectSeq(rows, IsExpense) = <<>> THEN <<>>
    ELSE LargePurchases(ExpensesWithStats(ExpensesDf(rows)),
                        Flagged(ExpensesWithStats(ExpensesDf(rows)), std_dev_threshold))

\* 'Frais Bancaires', the text find_bank_fees looks for
FeePattern == <<"F", "r", "a", "i", "s", " ", "B", "a", "n", "c", "a", "i", "r", "e", "s">>

\* re.search(pattern, text) is not None for a pattern without special character
\* other than '.': the case of the letters counts
PatternSearch(pattern, text) ==
    \E i \in 1..(Len(text) - Len(pattern) + 1) :
        \A j \in 1..Len(pattern) : pattern[j] = "." \/ pattern[j] = text[i + j - 1]

\* the rows whose category is the text looked for
CategoryEquals(cell, pattern) == cell.k = "str" /\ cell.s = pattern

\* df['categorie'].str.contains(pattern, na=False) on one cell
CategoryContains(cell, pattern) == cell.k = "str" /\ PatternSearch(pattern, cell.s)

\* find_bank_fees
FindBankFees(rows) ==
    LET fees == SelectSeq(rows, LAMBDA t : CategoryContains(t.categorie, FeePattern))
    IN  Tuple([i \in 1..Len(fees) |->
            [hash |-> fees[i].hash, date_op |-> fees[i].date_op,
             libelle_simple |-> fees[i].libelle_simple, montant |-> fees[i].montant]])

(***************************************************************************)
(* SpecInsights: the analyses applied to ledgers of categorized records     *)
(***************************************************************************)
MaxLedger == 3

\* the fee category of the seeded rules, and a category a user added for the
\* fees of a business account
InsightRules ==
    <<[category |-> <<"F", "r", "a", "i", "s", " ", "B", "a", "n", "c", "a", "i", "r", "e", "s">>, keywords |-> <<<<"F", "R", "A", "I", "S", " ", "B", "A", "N", "C", "A", "I", "R", "E", "S">>>>],
      [category |-> <<"F", "r", "a", "i", "s", " ", "B", "a", "n", "c", "a", "i", "r", "e", "s", " ", "P", "r", "o">>, keywords |-> <<<<"C", "O", "T", "I", "S", "A", "T", "I", "O", "N", " ", "P", "R", "O">>>>]>>

\* statement lines: <<libelle_operation, libelle_simplifie>>
InsightLines ==
    {<<Str(<<"F", "R", "A", "I", "S", " ", "B", "A", "N", "C", "A", "I", "R", "E", "S", " ", "T", "1">>), Str(<<"F", "R", "A", "I", "S">>)>>,
     <<Str(<<"C", "O", "T", "I", "S", "A", "T", "I", "O", "N", " ", "P", "R", "O">>), Str(<<"C", "O", "T", "I", "S", "A", "T", "I", "O", "N">>)>>,
     <<Str(<<"V", "I", "R", " ", "D", "U", "P", "O", "N", "T">>), None>>}

\* amounts in euros
InsightAmounts == {-5, -20, -30, 100}

\* operation dates, by position in the ledger
InsightDates ==
    {<<Timestamp(2024, 2, 29), Timestamp(2024, 10, 1), Timestamp(2024, 1, 31)>>}

\* the categories _categorize_transactions gives the labels under InsightRules
CategoriesOf(labels) ==
    Col(CategorizeTransactions(
            [columns |-> <<ColLibelleOperation>>,
             data    |-> Tuple([r \in 1..Len(labels) |-> <<labels[r]>>])],
            InsightRules, FALSE).df, ColCategorie)

\* the records of a ledger, as get_all returns them, given the categories of
\* their lines
LedgerRecords(lines, cats, amounts, kinds, dates) ==
    Tuple([i \in 1..Len(lines) |->
        [hash           |-> Sha256(IsoFormat(dates[i]) \o lines[i][1].s),
         montant        |-> SqlReal(IntV(amounts[i])),
         date_op        |-> SqlText(dates[i]),
         libelle_op     |-> lines[i][1],
         libelle_simple |-> lines[i][2],
         categorie      |-> cats[i],
         type_budget    |-> kinds[i]]])

InsightLedger(lines, amounts, kinds, dates) ==
    LedgerRecords(lines, CategoriesOf(Tuple([j \in 1..Len(lines) |-> lines[j][1]])),
                  amounts, kinds, dates)

\* the values of std_dev_threshold
Thresholds == {0, 1, 2}

InitInsights ==
    /\ \E n \in 0..MaxLedger :
          \E lines \in [1..n -> InsightLines], amounts \in [1..n -> InsightAmounts],
             kinds \in [1..n -> {Ponctuel, Recurrente}], dates \in InsightDates :
              inp = [op |-> "insights", rows |-> InsightLedger(lines, amounts, kinds, dates)]
    /\ out = Idle
    /\ categories = <<>> /\ rules = <<>> /\ ledger = <<>>
    /\ session = Idle /\ last = Idle /\ imported = {} /\ steps = 0

\* find_recurring_subscriptions(df)
Subscriptions ==
    /\ inp.op = "insights" /\ out = Idle
    /\ \E result \in FindRecurringSubscriptions(inp.rows) :
          out' = [fn |-> "subscriptions", result |-> result]
    /\ UNCHANGED <<categories, rules, ledger, session, last, imported, steps, inp>>

\* find_large_purchases(df, std_dev_threshold)
Purchases(std_dev_threshold) ==
    /\ inp.op = "insights" /\ out = Idle
    /\ out' = [fn |-> "purchases", threshold |-> std_dev_threshold,
               result |-> FindLargePurchases(inp.rows, std_dev_threshold)]
    /\ UNCHANGED <<categories, rules, ledger, session, last, imported, steps, inp>>

\* find_bank_fees(df)
BankFees ==
    /\ inp.op = "insights" /\ out = Idle
    /\ out' = [fn |-> "fees", result |-> FindBankFees(inp.rows)]
    /\ UNCHANGED <<categories, rules, ledger, session, last, imported, steps, inp>>

NextInsights ==
    \/ Subscriptions
    \/ \E std_dev_threshold \in Thresholds : Purchases(std_dev_threshold)
    \/ BankFees

SpecInsights == InitInsights /\ [][NextInsights]_vars

(***************************************************************************)
(* Properties of the analyses                                              *)
(***************************************************************************)
Subscribed == inp.op = "insights" /\ out # Idle /\ out.fn = "subscriptions"

Purchased == inp.op = "insights" /\ out # Idle /\ out.fn = "purchases"

FeesFound == inp.op = "insights" /\ out # Idle /\ out.fn = "fees"

\* the day number of an ISO date text
IsoOrdinal(text) ==
    Ordinal(Timestamp(NatVal(SubSeq(text, 1, 4)), NatVal(SubSeq(text, 6, 7)),
                      NatVal(SubSeq(text, 9, 10))))

\* the positions of the ledger records with the given simplified label that are
\* Recurrente and of negative amount
Qualifying(label) ==
    {i \in 1..Len(inp.rows) :
        /\ inp.rows[i].libelle_simple = label
        /\ inp.rows[i].type_budget = Recurrente
        /\ inp.rows[i].montant.k = "float" /\ FLt(inp.rows[i].montant.f, FZero)}

\* the amounts of the records at the positions S, in the order of the ledger
AmountsAt(S) ==
    LET at == SelectSeq(Tuple([i \in 1..Len(inp.rows) |-> i]), LAMBDA i : i \in S)
    IN  Tuple([i \in 1..Len(at) |-> inp.rows[at[i]].montant.f])

RecordOf(hash) == inp.rows[CHOOSE i \in 1..Len(inp.rows) : inp.rows[i].hash = hash]

\* the positions of the ledger records of negative amount in a category
SpendsOf(categorie) ==
    {i \in 1..Len(inp.rows) :
        /\ inp.rows[i].categorie = categorie
        /\ inp.rows[i].montant.k = "float" /\ FLt(inp.rows[i].montant.f, FZero)}

\* the spends of the records at the positions S, in hundredths
SpendsAt(S) ==
    LET at == SelectSeq(Tuple([i \in 1..Len(inp.rows) |-> i]), LAMBDA i : i \in S)
    IN  Tuple([i \in 1..Len(at) |-> Abs(Cents(inp.rows[at[i]].montant))])

\* spend > mean + k * std over the spends deps, in exact arithmetic
AboveStatistics(spend, deps, k) ==
    /\ Len(deps) * spend > SumInt(deps)
    /\ Len(deps) > 1 =>
          (Len(deps) * spend - SumInt(deps)) * (Len(deps) * spend - SumInt(deps)) * (Len(deps) - 1)
             > k * k * SquaredDeviations(deps, Len(deps), SumInt(deps))

\* C16: find_large_purchases only flags rows of negative amount whose spend is
\* greater than 20 and greater than the mean of their category's spend plus k
\* times its standard deviation; a category in which every spend is at most 20
\* never produces a flagged row, whatever k.
OutlierFloor ==
    Purchased =>
        /\ \A i \in 1..Len(out.result) :
              /\ FLt(RecordOf(out.result[i].hash).montant.f, FZero)
              /\ Abs(Cents(RecordOf(out.result[i].hash).montant)) > 2000
              /\ AboveStatistics(Abs(Cents(RecordOf(out.result[i].hash).montant)),
                                 SpendsAt(SpendsOf(out.result[i].categorie)), out.threshold)
        /\ \A c \in {inp.rows[i].categorie : i \in 1..Len(inp.rows)} :
              (\A q \in SpendsOf(c) : Abs(Cents(inp.rows[q].montant)) <= 2000)
                 => \A i \in 1..Len(out.result) : out.result[i].categorie # c

\* a purchase is flagged, and a spend of 20 or less that is above the statistics
\* of its category is not
OutlierFloorWitness ==
    /\ Purchased
    /\ out.result # <<>>
    /\ \E q \in 1..Len(inp.rows) :
          /\ q \in SpendsOf(inp.rows[q].categorie)
          /\ Abs(Cents(inp.rows[q].montant)) <= 2000
          /\ AboveStatistics(Abs(Cents(inp.rows[q].montant)),
                             SpendsAt(SpendsOf(inp.rows[q].categorie)), out.threshold)
          /\ \A i \in 1..Len(out.result) : out.result[i].hash # inp.rows[q].hash

\* the text holds the fee pattern, letter for letter
HoldsFeePattern(text) ==
    \E i \in 0..(Len(text) - Len(FeePattern)) :
        SubSeq(text, i + 1, i + Len(FeePattern)) = FeePattern

\* C17 as stated: find_bank_fees returns every ledger row whose category is the
\* fee category and no row whose category is a different category.
FeeRoundTrip ==
    FeesFound =>
        {out.result[i].hash : i \in 1..Len(out.result)}
            = {inp.rows[i].hash : i \in {j \in 1..Len(inp.rows) :
                                           inp.rows[j].categorie = Str(FeePattern)}}

\* C17: find_bank_fees returns every ledger row whose category was set to the fee
\* category by the categorizer, and the rows it returns are exactly the rows
\* whose category contains the text 'Frais Bancaires'.
FeeIsolation ==
    FeesFound =>
        /\ \A j \in 1..Len(inp.rows) :
              inp.rows[j].categorie = Str(FeePattern)
                 => \E i \in 1..Len(out.result) : out.result[i].hash = inp.rows[j].hash
        /\ {out.result[i].hash : i \in 1..Len(out.result)}
              = {inp.rows[i].hash : i \in {j \in 1..Len(inp.rows) :
                                             /\ inp.rows[j].categorie.k = "str"
                                             /\ HoldsFeePattern(inp.rows[j].categorie.s)}}

\* a row of the fee category and a row of another category are returned, and a
\* row without a category is not
FeeIsolationWitness ==
    /\ FeesFound
    /\ \E i \in 1..Len(out.result) : RecordOf(out.result[i].hash).categorie = Str(FeePattern)
    /\ \E i \in 1..Len(out.result) : RecordOf(out.result[i].hash).categorie # Str(FeePattern)
    /\ \E j \in 1..Len(inp.rows) :
          /\ inp.rows[j].categorie = Str(<<>>)
          /\ \A i \in 1..Len(out.result) : out.result[i].hash # inp.rows[j].hash

(***************************************************************************)
(* Atomicity of the import                                                 *)
(***************************************************************************)
\* C20: an import that fails, be it while the batch is processed or while it is
\* inserted, leaves the ledger as it was before; an import that succeeds
\* leaves every record of the batch in the ledger and keeps the former records
\* in place; so the records an import adds are none or all the new ones of the
\* batch, never a strict subset.
ImportAtomic ==
    Imported =>
        /\ last.raised => ledger = last.before
        /\ ~last.raised => last.batch \subseteq Hashes(ledger)
        /\ Len(ledger) >= Len(last.before)
        /\ SubSeq(ledger, 1, Len(last.before)) = last.before
        /\ Hashes(ledger) \ Hashes(last.before)
              \in {{}, last.batch \ Hashes(last.before)}

\* the insert failed after it had written a record that is new to the ledger
ImportAtomicWitness ==
    /\ Imported /\ last.raised /\ last.stage = "insert" /\ last.done >= 1
    /\ last.batch \ Hashes(last.before) # {}
    /\ ledger = last.before

(***************************************************************************)
(* Legacy ingestion path: logic.preprocess_data                             *)
(***************************************************************************)
\* element-wise Credit - Debit of two numeric cells
SubNumeric(a, b) ==
    IF a.k = "int" /\ b.k = "int" THEN IntV(a.n - b.n)
    ELSE FloatV(FSub(IF a.k = "int" THEN FOfInt(a.n) ELSE a.f,
                     IF b.k = "int" THEN FOfInt(b.n) ELSE b.f))

\* df_processed['Debit']: the column of that very name, or 0
LegacyDebit(df) ==
    SetCol(df, HeaderDebit,
           IF HasCol(df, HeaderDebit)
           THEN NumericColumn(Tuple([r \in 1..Len(df.data) |->
                   ToNumeric(Replace(AsTypeStr(Col(df, HeaderDebit)[r]), ",", <<".">>))]))
           ELSE Tuple([r \in 1..Len(df.data) |-> IntV(0)]))

\* df_processed['Credit']: as Debit, with every '+' removed
LegacyCredit(df) ==
    SetCol(df, HeaderCredit,
           IF HasCol(df, HeaderCredit)
           THEN NumericColumn(Tuple([r \in 1..Len(df.data) |->
                   ToNumeric(Replace(Replace(AsTypeStr(Col(df, HeaderCredit)[r]), ",", <<".">>),
                                     "+", <<>>))]))
           ELSE Tuple([r \in 1..Len(df.data) |-> IntV(0)]))

\* df_processed['montant'] = df_processed['Credit'] - df_processed['Debit']
LegacyMontant(df) ==
    SetCol(df, ColMontant,
           Tuple([r \in 1..Len(df.data) |->
               SubNumeric(Col(df, HeaderCredit)[r], Col(df, HeaderDebit)[r])]))

\* preprocess_data
PreprocessData(df) == LegacyMontant(LegacyCredit(LegacyDebit(df)))

(***************************************************************************)
(* SpecIngest: the ingestion paths applied to statements that lack columns  *)
(* or hold cells that are no date and no number                             *)
(***************************************************************************)
\* the columns of a statement, in the order of the export
IngestHeaders == <<HeaderDate, HeaderLabel, HeaderDebit, HeaderCredit>>

\* the cells of a line, by column
IngestCells ==
    <<{Str(<<"0", "5", "/", "0", "1", "/", "2", "0", "2", "4">>), Str(<<"3", "1", "/", "0", "2", "/", "2", "0", "2", "4">>), NaN},
      {Str(<<"C", "B", " ", "C", "A", "R", "R", "E", "F", "O", "U", "R">>), NaN},
      {Str(<<"-", "1", "2", ",", "5">>), Str(<<"4", "5">>), Str(<<"a", "b", "c">>)},
      {Str(<<"+", "1", "0", "0">>), NaN}>>

\* a line that follows the first one in a statement of two lines
SecondLine == <<Str(<<"0", "6", "/", "0", "1", "/", "2", "0", "2", "4">>), Str(<<"P", "R", "L", "V", " ", "N", "E", "T", "F", "L", "I", "X">>), Str(<<"-", "1", "0">>), NaN>>

\* the statement with the given lines, reduced to the columns kept
IngestTable(kept, lines) ==
    [columns |-> SelectSeq(IngestHeaders, LAMBDA h : h \in kept),
     data    |-> Tuple([r \in 1..Len(lines) |->
                    Tuple([i \in 1..Cardinality(kept) |->
                        lines[r][CHOOSE c \in 1..Len(IngestHeaders) :
                            /\ IngestHeaders[c] \in kept
                            /\ Cardinality({b \in 1..c : IngestHeaders[b] \in kept}) = i]])])]

\* the rules of the seeded store, as get_rules returns them
SeededRules ==
    GetRules(SeedData(<<>>, <<>>, InitialRules)[1], SeedData(<<>>, <<>>, InitialRules)[2])

InitIngest ==
    /\ \E kept \in SUBSET Range(IngestHeaders) :
          \E date \in IngestCells[1], label \in IngestCells[2],
             debit \in IngestCells[3], credit \in IngestCells[4], two \in BOOLEAN :
              inp = [op |-> "ingest",
                     raw |-> IngestTable(kept, IF two THEN <<<<date, label, debit, credit>>, SecondLine>>
                                               ELSE <<<<date, label, debit, credit>>>>)]
    /\ out = Idle
    /\ categories = <<>> /\ rules = <<>> /\ ledger = <<>>
    /\ session = Idle /\ last = Idle /\ imported = {} /\ steps = 0

\* FinanceService._preprocess_dataframe(df)
Normalize ==
    /\ inp.op = "ingest" /\ out = Idle
    /\ out' = [fn |-> "service", df |-> PreprocessDataframe(inp.raw)]
    /\ UNCHANGED <<categories, rules, ledger, session, last, imported, steps, inp>>

\* logic.preprocess_data(df)
NormalizeLegacy ==
    /\ inp.op = "ingest" /\ out = Idle
    /\ out' = [fn |-> "legacy", df |-> PreprocessData(inp.raw)]
    /\ UNCHANGED <<categories, rules, ledger, session, last, imported, steps, inp>>

\* service.process_transactions_from_df(df, account_type)
Process(account_type) ==
    /\ inp.op = "ingest" /\ out = Idle
    /\ \E result \in ProcessTransactionsFromDf(inp.raw, account_type, SeededRules) :
          out' = [fn |-> "process", raised |-> result.raised,
                  transactions |-> result.transactions]
    /\ UNCHANGED <<categories, rules, ledger, session, last, imported, steps, inp>>

NextIngest ==
    \/ Normalize
    \/ NormalizeLegacy
    \/ \E account_type \in Accounts : Process(account_type)

SpecIngest == InitIngest /\ [][NextIngest]_vars

(***************************************************************************)
(* Properties of the ingestion paths                                       *)
(***************************************************************************)
Normalized == inp.op = "ingest" /\ out # Idle /\ out.fn \in {"service", "legacy"}

Processed == inp.op = "ingest" /\ out # Idle /\ out.fn = "process"

\* the number a raw debit or credit cell stands for: NaN for a cell that is
\* empty or no number, and for a column the statement lacks
RawEntry(header, r, drop) ==
    IF ~HasCol(inp.raw, header) THEN NaN
    ELSE ToNumeric(Replace(Replace(AsTypeStr(Col(inp.raw, header)[r]), ",", <<".">>), drop, <<>>))

\* the sign of a numeric cell: -1, 0 or 1
SignOf(v) ==
    IF v.k = "int" THEN (IF v.n < 0 THEN -1 ELSE IF v.n > 0 THEN 1 ELSE 0)
    ELSE IF FIsZero(v.f) THEN 0 ELSE IF v.f.sgn = 1 THEN -1 ELSE 1

\* C18: in each ingestion path, a raw row with a non-zero debit entry and no
\* credit never yields a positive amount, and a raw row with a non-zero credit
\* entry and no debit never yields a negative amount.
SignOfAmount ==
    Normalized =>
        \A r \in 1..Len(inp.raw.data) :
            /\ (~IsNA(RawEntry(HeaderDebit, r, "+")) /\ SignOf(RawEntry(HeaderDebit, r, "+")) # 0
                  /\ IsNA(RawEntry(HeaderCredit, r, "+")))
                  => SignOf(Col(out.df, ColMontant)[r]) <= 0
            /\ (~IsNA(RawEntry(HeaderCredit, r, "+")) /\ SignOf(RawEntry(HeaderCredit, r, "+")) # 0
                  /\ IsNA(RawEntry(HeaderDebit, r, "+")))
                  => SignOf(Col(out.df, ColMontant)[r]) >= 0

\* What the paths do keep: the service path gives a row without a credit the sign
\* of its debit entry, the legacy path the opposite sign, and both give a row
\* without a debit the sign of its credit entry.
SignFollowsEntry ==
    Normalized =>
        \A r \in 1..Len(inp.raw.data) :
            /\ (~IsNA(RawEntry(HeaderDebit, r, "+")) /\ IsNA(RawEntry(HeaderCredit, r, "+")))
                  => SignOf(Col(out.df, ColMontant)[r])
                        = IF out.fn = "service" THEN SignOf(RawEntry(HeaderDebit, r, "+"))
                          ELSE - SignOf(RawEntry(HeaderDebit, r, "+"))
            /\ (~IsNA(RawEntry(HeaderCredit, r, "+")) /\ IsNA(RawEntry(HeaderDebit, r, "+")))
                  => SignOf(Col(out.df, ColMontant)[r]) = SignOf(RawEntry(HeaderCredit, r, "+"))

\* C19: for a statement that lacks any subset of the columns and whose cells
\* hold arbitrary text, process_transactions_from_df does not raise and gives
\* one record per line; a debit or credit that is no number counts as zero and
\* a date that is no date, or the date of a statement without the column, is
\* absent.
NormalisationTotal ==
    Processed =>
        /\ ~out.raised
        /\ Len(out.transactions) = Len(inp.raw.data)
        /\ \A i \in 1..Len(out.transactions) :
              /\ out.transactions[i].date_op \in {None} \cup
                    {ToDatetime(c) : c \in {q \in IngestCells[1] \cup {SecondLine[1]} :
                                               ToDatetime(q).k = "ts"}}
              /\ SignOf(out.transactions[i].debit) \in {-1, 0, 1}
              /\ SignOf(out.transactions[i].credit) \in {-1, 0, 1}

\* What the pipeline does keep: a statement that has the columns of the operation
\* date and of the label, the latter with a text on some line, is processed
\* without error into one record per line, in some order; a debit or credit
\* that is no number counts as zero, and the date of a record is a date of the
\* statement or absent.
TotalWithRequiredColumns ==
    (Processed /\ HasCol(inp.raw, HeaderDate) /\ HasCol(inp.raw, HeaderLabel)
        /\ \E r \in 1..Len(inp.raw.data) : Col(inp.raw, HeaderLabel)[r].k = "str") =>
        /\ ~out.raised
        /\ Len(out.transactions) = Len(inp.raw.data)
        /\ \A i \in 1..Len(out.transactions) :
              /\ out.transactions[i].date_op \in {None} \cup
                    {ToDatetime(c) : c \in {q \in Range(Col(inp.raw, HeaderDate)) :
                                               ToDatetime(q).k = "ts"}}
              /\ \E r \in 1..Len(inp.raw.data) :
                    /\ SignOf(out.transactions[i].debit)
                          = IF IsNA(RawEntry(HeaderDebit, r, "+")) THEN 0
                            ELSE SignOf(RawEntry(HeaderDebit, r, "+"))
                    /\ SignOf(out.transactions[i].credit)
                          = IF IsNA(RawEntry(HeaderCredit, r, "+")) THEN 0
                            ELSE SignOf(RawEntry(HeaderCredit, r, "+"))
                    /\ out.transactions[i].libelle_op = SqlText(Col(inp.raw, HeaderLabel)[r])
                          \/ out.transactions[i].libelle_op = Col(inp.raw, HeaderLabel)[r]

(***************************************************************************)
(* Stability of the records of the ledger                                  *)
(***************************************************************************)
\* a record without the three fields a handler may rewrite
Immutable(row) ==
    [f \in DOMAIN row \ {"categorie", "sous_categorie", "type_budget"} |-> row[f]]

\* C21: every step of the application keeps each record of the ledger in its
\* place with the same hash, account, amount, date and labels; only categorie,
\* sous_categorie and type_budget may change, and no record is removed.
RecordStability ==
    [][/\ Len(ledger') >= Len(ledger)
       /\ \A i \in 1..Len(ledger) : Immutable(ledger'[i]) = Immutable(ledger[i])]_vars

\* a record whose sub-category was typed in the grid is in the ledger after a
\* later import or sweep
RecordStabilityWitness ==
    /\ inp.op = "app" /\ last.op \in {"import", "sweep"}
    /\ Len(ledger) >= 2
    /\ \E i \in 1..Len(ledger) : ledger[i].sous_categorie \in SubCategoryInputs

(***************************************************************************)
(* SpecConcurrent: two importers call add_many on the same database file,   *)
(* each on a connection of its own                                          *)
(***************************************************************************)
\* a statement that shares its first line with the first statement of ImportTables
OverlappingTable ==
    [columns |-> <<HeaderDate, HeaderSimple, HeaderLabel, HeaderDebit, HeaderCredit>>,
     data    |-> <<<<Str(<<"0", "5", "/", "0", "1", "/", "2", "0", "2", "4">>), Str(<<"C", "A", "R", "R", "E", "F", "O", "U", "R">>), Str(<<"C", "B", " ", "C", "A", "R", "R", "E", "F", "O", "U", "R">>), Str(<<"-", "1", "2", ",", "5">>), NaN>>,
                   <<Str(<<"0", "8", "/", "0", "1", "/", "2", "0", "2", "4">>), Str(<<"S", "N", "C", "F">>), Str(<<"C", "B", " ", "S", "N", "C", "F">>), Str(<<"-", "3", "0">>), NaN>>>>]

\* the batches process_transactions_from_df hands to add_many
Batches ==
    UNION {{result.transactions :
               result \in ProcessTransactionsFromDf(table, account_type, SeededRules)} :
           table \in ImportTables \cup {OverlappingTable}, account_type \in Accounts}

Importers == {1, 2}

\* the importer `holder` has the write lock of the database file, 0 for nobody;
\* a connection can write when no other connection has the lock
NoWriteLock(holder, p) == TRUE

CanWrite(holder, p) == holder \in {0, p}

InitConcurrent ==
    /\ \E before \in {<<>>} \cup {AddMany(<<>>, b)[1] : b \in Batches} :
          \E b1 \in Batches, b2 \in Batches :
              /\ Hashes(b1) \cap Hashes(b2) # {}
              /\ inp = [op |-> "concurrent", before |-> before, batches |-> <<b1, b2>>]
              /\ ledger = before
    /\ out = [pc      |-> [p \in Importers |-> "called"],
              pending |-> [p \in Importers |-> <<>>],
              done    |-> [p \in Importers |-> 0],
              count   |-> [p \in Importers |-> 0],
              holder  |-> 0]
    /\ categories = <<>> /\ rules = <<>>
    /\ session = Idle /\ last = Idle /\ imported = {} /\ steps = 0

\* cursor.executemany reaches its first INSERT: the connection takes the write
\* lock and sees the committed table
BeginWrite(p) ==
    /\ inp.op = "concurrent" /\ out.pc[p] = "called"
    /\ CanWrite(out.holder, p)
    /\ out' = [out EXCEPT !.pc[p] = "writing", !.pending[p] = ledger, !.holder = p]
    /\ UNCHANGED <<categories, rules, ledger, session, last, imported, steps, inp>>

\* the first INSERT finds the file locked by the other connection until the
\* busy timeout of sqlite3.connect has passed: OperationalError
Busy(p) ==
    /\ inp.op = "concurrent" /\ out.pc[p] = "called"
    /\ ~CanWrite(out.holder, p)
    /\ out' = [out EXCEPT !.pc[p] = "raised"]
    /\ UNCHANGED <<categories, rules, ledger, session, last, imported, steps, inp>>

\* executemany runs INSERT OR IGNORE for the next record of the batch
InsertNext(p) ==
    /\ inp.op = "concurrent" /\ out.pc[p] = "writing"
    /\ out.done[p] < Len(inp.batches[p])
    /\ LET added == InsertOrIgnore(out.pending[p],
                                   <<inp.batches[p][out.done[p] + 1]>>, out.count[p])
       IN  out' = [out EXCEPT !.pending[p] = added[1], !.count[p] = added[2],
                              !.done[p] = out.done[p] + 1]
    /\ UNCHANGED <<categories, rules, ledger, session, last, imported, steps, inp>>

\* conn.commit(); return inserted_rows
Commit(p) ==
    /\ inp.op = "concurrent" /\ out.pc[p] = "writing"
    /\ out.done[p] = Len(inp.batches[p])
    /\ ledger' = out.pending[p]
    /\ out' = [out EXCEPT !.pc[p] = "returned", !.holder = 0]
    /\ UNCHANGED <<categories, rules, session, last, imported, steps, inp>>

NextConcurrent ==
    \E p \in Importers : BeginWrite(p) \/ Busy(p) \/ InsertNext(p) \/ Commit(p)

SpecConcurrent == InitConcurrent /\ [][NextConcurrent]_vars

(***************************************************************************)
(* Properties of concurrent imports                                        *)
(***************************************************************************)
\* no two records of rows have the same hash
OnePerHash(rows) ==
    \A i \in 1..Len(rows), j \in 1..Len(rows) : rows[i].hash = rows[j].hash => i = j

BothReturned == inp.op = "concurrent" /\ \A p \in Importers : out.pc[p] = "returned"

BusyInsertsNothing ==
    (inp.op = "concurrent" /\ \E p \in Importers : out.pc[p] = "raised") =>
        \A p \in Importers :
            out.pc[p] = "raised" =>
                Hashes(ledger) \subseteq Hashes(inp.before) \cup Hashes(inp.batches[3 - p])

(***************************************************************************)
(* SpecRules: the rule store under add_category, add_rule and seed_data     *)
(***************************************************************************)
\* calls made on one store
MaxCalls == 3

\* category names and keywords given to the calls
RuleNames == {<<"L", "o", "i", "s", "i", "r", "s">>, <<"A", "b", "o", "n", "n", "e", "m", "e", "n", "t", "s">>, <<"C", "o", "u", "r", "s", "e", "s">>}

RuleKeywords == {<<"N", "E", "T", "F", "L", "I", "X">>, <<"n", "e", "t", "f", "l", "i", "x">>, <<"S", "P", "O", "T", "I", "F", "Y">>}

InitRules ==
    /\ \E seeded \in BOOLEAN :
          /\ categories = IF seeded THEN SeedData(<<>>, <<>>, InitialRules)[1] ELSE <<>>
          /\ rules = IF seeded THEN SeedData(<<>>, <<>>, InitialRules)[2] ELSE <<>>
    /\ inp = [op |-> "rules"]
    /\ last = [op |-> "start"]
    /\ steps = 0
    /\ ledger = <<>> /\ session = Idle /\ imported = {} /\ out = Idle

\* category_repo.add_category(name)
CallAddCategory(name) ==
    /\ inp.op = "rules" /\ steps < MaxCalls
    /\ LET added == AddCategoryResult(categories, name)
       IN  /\ categories' = added[2]
           /\ last' = [op |-> "add_category", ok |-> added[1],
                       categories |-> categories, rules |-> rules]
    /\ steps' = steps + 1
    /\ UNCHANGED <<rules, ledger, session, imported, inp, out>>

\* category_repo.add_rule(category_name, keyword)
CallAddRule(category_name, keyword) ==
    /\ inp.op = "rules" /\ steps < MaxCalls
    /\ LET added == AddRuleResult(categories, rules, category_name, keyword)
       IN  /\ rules' = added[2]
           /\ last' = [op |-> "add_rule", ok |-> added[1],
                       categories |-> categories, rules |-> rules]
    /\ steps' = steps + 1
    /\ UNCHANGED <<categories, ledger, session, imported, inp, out>>

\* category_repo.seed_data(CATEGORIZATION_RULES)
CallSeedData ==
    /\ inp.op = "rules" /\ steps < MaxCalls
    /\ LET seeded == SeedData(categories, rules, InitialRules)
       IN  /\ categories' = seeded[1]
           /\ rules' = seeded[2]
           /\ last' = [op |-> "seed_data", ok |-> TRUE,
                       categories |-> categories, rules |-> rules]
    /\ steps' = steps + 1
    /\ UNCHANGED <<ledger, session, imported, inp, out>>

NextRules ==
    \/ \E name \in RuleNames : CallAddCategory(name)
    \/ \E category_name \in RuleNames, keyword \in RuleKeywords :
          CallAddRule(category_name, keyword)
    \/ CallSeedData

SpecRules == InitRules /\ [][NextRules]_vars

(***************************************************************************)
(* Properties of the rule store                                            *)
(***************************************************************************)
\* C23: the rule store never holds two rules whose keywords are equal when
\* letter case is ignored, as the categorizer compares them, and a rejected
\* add_category or add_rule leaves the store as it was.
NoKeywordConflict ==
    inp.op = "rules" =>
        /\ \A i \in 1..Len(rules), j \in 1..Len(rules) :
              Lower(rules[i].keyword) = Lower(rules[j].keyword) => i = j
        /\ (last.op \in {"add_category", "add_rule"} /\ ~last.ok) =>
              (categories = last.categories /\ rules = last.rules)

\* What the store does keep: no two rules have the same keyword letter for
\* letter, no two categories the same name, and a rejected call leaves the
\* store as it was.
ExactKeywordsUnique ==
    inp.op = "rules" =>
        /\ \A i \in 1..Len(rules), j \in 1..Len(rules) :
              rules[i].keyword = rules[j].keyword => i = j
        /\ \A i \in 1..Len(categories), j \in 1..Len(categories) :
              categories[i] = categories[j] => i = j
        /\ (last.op \in {"add_category", "add_rule"} /\ ~last.ok) =>
              (categories = last.categories /\ rules = last.rules)

\* a call was rejected on a store that holds a rule
RejectedCallReached ==
    /\ inp.op = "rules" /\ last.op = "add_rule" /\ ~last.ok /\ rules # <<>>

(***************************************************************************)
(* SpecUpload: imports of statements, among them a file that holds the      *)
(* header line only and a file that cannot be read                          *)
(***************************************************************************)
\* a CSV file with its header line and no other line
HeaderOnlyTable ==
    [columns |-> <<HeaderDate, HeaderSimple, HeaderLabel, HeaderDebit, HeaderCredit>>,
     data    |-> <<>>]

NextUpload ==
    \/ \E raw_df \in ImportTables \cup {HeaderOnlyTable}, account_type \in Accounts :
          Import(raw_df, account_type)
    \/ ImportUnreadable

SpecUpload == Init /\ [][NextUpload]_vars

\* the handler showed "<n> nouvelle(s) transaction(s) importee(s) !" with n = 0
ReportsZeroInserted == Imported /\ ~last.raised /\ last.inserted = 0

\* C24: an import of a file without data rows, or of a file that cannot be
\* read, never ends with the success report of 0 new transactions, which is
\* the report of a repeated import.
EmptyInputIsDistinct ==
    (Imported /\ last.rows = 0) => ~ReportsZeroInserted

\* What does hold: a file that cannot be read ends with the error report.
UnreadableIsReported ==
    (Imported /\ last.stage = "read") => last.raised /\ ledger = last.before

\* a repeated import ends with the success report of 0 new transactions
RepeatedImportReportsZero ==
    Imported /\ last.again /\ last.rows > 0 /\ ReportsZeroInserted

(***************************************************************************)
(* SpecDedup: two statement lines imported one after the other, each under  *)
(* its account                                                              *)
(***************************************************************************)
\* the cells of a line: operation date, raw label, credit
DedupDates == {Str(<<"0", "5", "/", "0", "1", "/", "2", "0", "2", "4">>), Str(<<"0", "6", "/", "0", "1", "/", "2", "0", "2", "4">>)}

DedupLabels == {Str(<<"X">>), Str(<<"X", "1">>)}

DedupCredits == {Str(<<"2", ",", "5">>), Str(<<"1", "2", ",", "5">>)}

\* the statement that holds the one line
DedupTable(line) ==
    [columns |-> <<HeaderDate, HeaderLabel, HeaderCredit>>, data |-> <<line>>]

\* the record process_transactions_from_df makes of the one line
DedupRecord(line, account_type) ==
    (CHOOSE result \in ProcessTransactionsFromDf(DedupTable(line), account_type, SeededRules) :
        TRUE).transactions

InitDedup ==
    /\ \E d1 \in DedupDates, d2 \in DedupDates, l1 \in DedupLabels, l2 \in DedupLabels,
          c1 \in DedupCredits, c2 \in DedupCredits, a1 \in Accounts, a2 \in Accounts :
          inp = [op |-> "dedup", lines |-> <<<<d1, l1, c1>>, <<d2, l2, c2>>>>,
                 accounts |-> <<a1, a2>>]
    /\ out = <<>>
    /\ ledger = <<>>
    /\ categories = <<>> /\ rules = <<>>
    /\ session = Idle /\ last = Idle /\ imported = {} /\ steps = 0

\* the import of the next line: process_transactions_from_df, then add_many
ImportLine ==
    /\ inp.op = "dedup" /\ Len(out) < Len(inp.lines)
    /\ LET batch == DedupRecord(inp.lines[Len(out) + 1], inp.accounts[Len(out) + 1])
       IN  /\ out' = Append(out, batch[1])
           /\ ledger' = AddMany(ledger, batch)[1]
    /\ UNCHANGED <<categories, rules, session, last, imported, steps, inp>>

NextDedup == ImportLine

SpecDedup == InitDedup /\ [][NextDedup]_vars

(***************************************************************************)
(* Properties of the fingerprint as a deduplication key                    *)
(***************************************************************************)
BothImported == inp.op = "dedup" /\ Len(out) = 2

\* the two records agree on operation date, raw label, amount and account
SameFour(t1, t2) ==
    /\ t1.date_op = t2.date_op
    /\ t1.libelle_op = t2.libelle_op
    /\ t1.montant = t2.montant
    /\ t1.account_type = t2.account_type

\* C25: two lines get the same fingerprint, and are stored as one record, only
\* if they agree on operation date, raw label, amount and account; lines that
\* differ in one of the four are stored as two records.
FingerprintInjective ==
    BothImported =>
        /\ out[1].hash = out[2].hash => SameFour(out[1], out[2])
        /\ ~SameFour(out[1], out[2]) => Len(ledger) = 2

\* What does hold: lines that agree on the four get the same fingerprint and are
\* stored once, and lines with the same raw label that differ in date, amount
\* or account are stored as two records.
FingerprintOfSameLabel ==
    BothImported =>
        /\ SameFour(out[1], out[2]) => (out[1].hash = out[2].hash /\ Len(ledger) = 1)
        /\ (out[1].libelle_op = out[2].libelle_op /\ ~SameFour(out[1], out[2]))
              => (out[1].hash # out[2].hash /\ Len(ledger) = 2)

(***************************************************************************)
(* Frame of the import and of the sweep                                    *)
(***************************************************************************)
\* C27: an import changes no field of a record that is already in the ledger:
\* every stored record is the same after the import, whatever the rules and
\* the detector make of the imported lines now.
ImportKeepsRecords ==
    [][(last'.op = "import" /\ steps' = steps + 1) =>
          \A i \in 1..Len(ledger) : ledger'[i] = ledger[i]]_vars

\* a statement was imported again after a sub-category was typed on one of its
\* lines, and the record still has it
ImportKeepsRecordsWitness ==
    /\ Imported /\ last.again /\ ~last.raised
    /\ \E i \in 1..Len(ledger) :
          /\ ledger[i].hash \in last.batch
          /\ ledger[i].sous_categorie \in SubCategoryInputs

\* C28: a sweep changes only the records its diff lists: each of them gets the
\* new category of the diff and an empty sub-category; the budget kind of every
\* record, and the category and sub-category of every record outside the diff,
\* are unchanged, and no record is added or removed.
SweepFrameEffect ==
    [][(last'.op = "sweep" /\ steps' = steps + 1) =>
          /\ Len(ledger') = Len(ledger)
          /\ \A i \in 1..Len(ledger) :
                LET pairs == {j \in 1..Len(last'.diff) : last'.diff[j].hash = ledger[i].hash}
                IN  IF pairs = {} THEN ledger'[i] = ledger[i]
                    ELSE /\ ledger'[i].type_budget = ledger[i].type_budget
                         /\ Immutable(ledger'[i]) = Immutable(ledger[i])
                         /\ ledger'[i].sous_categorie = Str(<<>>)
                         /\ \E j \in pairs : ledger'[i].categorie = last'.diff[j].categorie]_vars

\* a sweep gave a record a category and left another record as it was
SweepFrameEffectWitness ==
    /\ Swept /\ ~last.raised /\ last.diff # <<>>
    /\ \E j \in 1..Len(last.diff) : last.diff[j].categorie # Str(<<>>)
    /\ \E i \in 1..Len(ledger) :
          \A j \in 1..Len(last.diff) : last.diff[j].hash # ledger[i].hash

(***************************************************************************)
(* The session's snapshot and the ledger                                   *)
(***************************************************************************)
\* the records a handler reads are those of the ledger
Coherent(sess, rows) == EnsureDataLoaded(sess, rows).rows = GetAll(rows)

CompletedHandlersKeepCoherence ==
    [][(inp.op = "app" /\ Coherent(session, ledger) /\ last'.op # "sweep_stopped")
          => Coherent(session', ledger')]_vars

\* A stopped sweep changes only records of its diff that it reached.
StoppedSweepFrame ==
    [][(last'.op = "sweep_stopped" /\ steps' = steps + 1) =>
          /\ Len(ledger') = Len(ledger)
          /\ \A i \in 1..Len(ledger) :
                \/ ledger'[i] = ledger[i]
                \/ \E j \in 1..last'.done :
                      /\ last'.diff[j].hash = ledger[i].hash
                      /\ ledger'[i] = [ledger[i] EXCEPT !.categorie = last'.diff[j].categorie,
                                                        !.sous_categorie = Str(<<>>)]]_vars

(***************************************************************************)
(* Legacy import path: main.main calls logic.preprocess_data,               *)
(* logic.categorize_transactions, logic.detect_recurrences and              *)
(* database.insert_transactions                                             *)
(***************************************************************************)
HeaderCategorie == <<"C", "a", "t", "e", "g", "o", "r", "i", "e">>

\* the column detect_recurrences writes
HeaderTypeBudget == <<"T", "y", "p", "e", " ", "B", "u", "d", "g", "e", "t">>

\* CATEGORIZATION_RULES of logic.py, three of its categories with one keyword
LegacyRules ==
    <<[category |-> <<"C", "o", "u", "r", "s", "e", "s">>, keywords |-> <<<<"C", "A", "R", "R", "E", "F", "O", "U", "R">>>>],
      [category |-> <<"F", "a", "c", "t", "u", "r", "e", "s">>, keywords |-> <<<<"E", "D", "F">>>>],
      [category |-> <<"L", "o", "i", "s", "i", "r", "s">>, keywords |-> <<<<"N", "E", "T", "F", "L", "I", "X">>>>]>>

BoolV(b) == [k |-> "bool", b |-> b]

\* a cell of the right operand of | once pandas has made it boolean: NaN is
\* False, a text is True unless it is empty
CellTruth(v) == ~IsNA(v) /\ v # Str(<<>>)

\* df['Categorie'].isnull() | df['Categorie'] == '' on one cell: | binds
\* tighter than ==, so the boolean isnull | Categorie is compared with ''
LegacyUnset(v) == BoolV(IsNA(v) \/ CellTruth(v)) = Str(<<>>)

\* the two loops of categorize_transactions on the column Categorie
RECURSIVE LegacyApplyPairs(_, _, _)
LegacyApplyPairs(pairs, labels, cat) ==
    IF pairs = <<>> THEN cat
    ELSE LegacyApplyPairs(Tail(pairs), labels,
            Tuple([r \in 1..Len(cat) |->
                IF StrContains(labels[r], Head(pairs).keyword) /\ LegacyUnset(cat[r])
                THEN Str(Head(pairs).category) ELSE cat[r]]))

\* categorize_transactions(df), for a frame that has 'Libelle operation'
LegacyCategorize(df) ==
    LET cat == IF HasCol(df, HeaderCategorie) THEN Col(df, HeaderCategorie)
               ELSE Tuple([r \in 1..Len(df.data) |-> NaN])
    IN  SetCol(df, HeaderCategorie,
               LegacyApplyPairs(RulePairs(LegacyRules), Col(df, HeaderLabel), cat))

\* pd.to_datetime(df['Date operation'], errors='coerce') on one cell: no format
\* is given and dayfirst is False, a text a/b/yyyy with a up to 12 reads as month
\* a, day b.  How a text with a above 12 reads depends on the pandas release
\* and on the other cells; the statements of LegacyTables hold none.
LegacyToDatetime(cell) ==
    IF cell.k # "str" THEN NaT
    ELSE LET p == Split(cell.s, "/")
         IN  IF Len(p) # 3 THEN NaT
             ELSE IF ~(AllDigits(p[1]) /\ AllDigits(p[2]) /\ AllDigits(p[3])
                       /\ Len(p[1]) \in {1, 2} /\ Len(p[2]) \in {1, 2} /\ Len(p[3]) = 4)
                  THEN NaT
             ELSE LET m == NatVal(p[1])
                      d == NatVal(p[2])
                      y == NatVal(p[3])
                  IN  IF y >= 1 /\ m \in 1..12 /\ d >= 1 /\ d <= DaysInMonth(y, m)
                      THEN Timestamp(y, m, d) ELSE NaT

\* df['Date operation'] = pd.to_datetime(...)
LegacyParseDates(df) ==
    SetCol(df, HeaderDate,
           Tuple([r \in 1..Len(df.data) |-> LegacyToDatetime(Col(df, HeaderDate)[r])]))

\* the row orders df.sort_values('Date operation', inplace=True) may produce
LegacyOrders(df) ==
    IF HasCol(df, HeaderDate) /\ HasCol(df, HeaderSimple)
    THEN SortOrders(Col(LegacyParseDates(df), HeaderDate))
    ELSE {Tuple([i \in 1..Len(df.data) |-> i])}

\* the rows of the group of label, by position in df
LegacyGroupRows(df, label) ==
    SelectSeq(Tuple([r \in 1..Len(df.data) |-> r]),
              LAMBDA r : Col(df, HeaderSimple)[r] = label)

\* detect_recurrences(df): the result carries the column 'Type Budget'
LegacyDetectRecurrences(df, order) ==
    IF ~HasCol(df, HeaderDate) \/ ~HasCol(df, HeaderSimple)
    THEN SetCol(df, HeaderTypeBudget, Tuple([r \in 1..Len(df.data) |-> Ponctuel]))
    ELSE LET parsed == LegacyParseDates(df)
             sorted == [parsed EXCEPT !.data = Tuple([i \in 1..Len(order) |-> parsed.data[order[i]]])]
             flag(r) ==
                LET label == Col(sorted, HeaderSimple)[r]
                    rows  == LegacyGroupRows(sorted, label)
                IN  /\ ~IsNA(label)
                    /\ GroupIsRecurrent(
                          Tuple([i \in 1..Len(rows) |-> AsFloat(Col(sorted, ColMontant)[rows[i]])]),
                          Tuple([i \in 1..Len(rows) |-> Col(sorted, HeaderDate)[rows[i]]]))
         IN  SetCol(sorted, HeaderTypeBudget,
                    Tuple([r \in 1..Len(sorted.data) |-> IF flag(r) THEN Recurrente ELSE Ponctuel]))

\* database._calculate_hash(row, account_type)
LegacyCalculateHash(df, r, account_type) ==
    Sha256(Concat(HashTexts(<<RowGet(df, r, HeaderDate, Str(<<>>)),
                              RowGet(df, r, HeaderLabel, Str(<<>>)),
                              RowGet(df, r, ColMontant, Str(<<>>))>>,
                            account_type)))

\* Series.dt.strftime('%Y-%m-%d') on one cell
StrfDate(v) ==
    IF v.k = "ts"
    THEN Str(ZeroPad(v.y, 4) \o <<"-">> \o ZeroPad(v.m, 2) \o <<"-">> \o ZeroPad(v.d, 2))
    ELSE IF v.k = "nat" THEN NaN ELSE v

\* the record insert_transactions binds for row r: type_budget is the column
\* of that very name, made of 'Ponctuel' when the frame has none.  The columns
\* the engine never reads are left out.
LegacyRecord(df, r, account_type) ==
    [hash           |-> LegacyCalculateHash(df, r, account_type),
     account_type   |-> Str(account_type),
     montant        |-> RowGet(df, r, ColMontant, None),
     date_op        |-> StrfDate(RowGet(df, r, HeaderDate, None)),
     libelle_op     |-> RowGet(df, r, HeaderLabel, None),
     libelle_simple |-> RowGet(df, r, HeaderSimple, None),
     categorie      |-> RowGet(df, r, HeaderCategorie, None),
     sous_categorie |-> NaN,
     debit          |-> RowGet(df, r, HeaderDebit, None),
     credit         |-> RowGet(df, r, HeaderCredit, None),
     type_budget    |-> IF HasCol(df, ColTypeBudget) THEN RowGet(df, r, ColTypeBudget, None)
                        ELSE Ponctuel]

\* insert_transactions(df, account_type): <<ledger', inserted_rows>>
InsertTransactions(rows, df, account_type) ==
    IF df.data = <<>> THEN <<rows, 0>>
    ELSE InsertOrIgnore(rows,
                        Tuple([r \in 1..Len(df.data) |-> LegacyRecord(df, r, account_type)]), 0)

(***************************************************************************)
(* SpecLegacy: statements imported through the legacy page                  *)
(***************************************************************************)
MaxImports == 2

LegacySimple == {Str(<<"N", "E", "T", "F", "L", "I", "X">>), Str(<<"E", "D", "F">>)}

\* debit cells of successive lines
LegacyDebits ==
    {<<Str(<<"-", "1", "0">>), Str(<<"-", "1", "0">>), Str(<<"-", "1", "0">>), Str(<<"-", "1", "0">>)>>,
     <<Str(<<"-", "1", "0">>), Str(<<"-", "1", "0">>), Str(<<"-", "1", "2">>), Str(<<"-", "1", "0">>)>>}

\* operation dates of successive lines: the 5th of successive months as
\* to_datetime reads them, successive days, a line without a date
LegacyDates ==
    {<<Str(<<"0", "1", "/", "0", "5", "/", "2", "0", "2", "4">>), Str(<<"0", "2", "/", "0", "5", "/", "2", "0", "2", "4">>), Str(<<"0", "3", "/", "0", "5", "/", "2", "0", "2", "4">>), Str(<<"0", "4", "/", "0", "5", "/", "2", "0", "2", "4">>)>>,
     <<Str(<<"0", "1", "/", "0", "5", "/", "2", "0", "2", "4">>), Str(<<"0", "1", "/", "0", "6", "/", "2", "0", "2", "4">>), Str(<<"0", "1", "/", "0", "7", "/", "2", "0", "2", "4">>), Str(<<"0", "1", "/", "0", "8", "/", "2", "0", "2", "4">>)>>,
     <<Str(<<"0", "1", "/", "0", "5", "/", "2", "0", "2", "4">>), NaN, Str(<<"0", "3", "/", "0", "5", "/", "2", "0", "2", "4">>), Str(<<"0", "4", "/", "0", "5", "/", "2", "0", "2", "4">>)>>}

\* a statement of n lines; budget tells whether the file has a column named
\* type_budget, which says Récurrente on every line
LegacyTable(n, simple, debit, date, budget) ==
    IF budget
    THEN [columns |-> <<HeaderDate, HeaderSimple, HeaderLabel, HeaderDebit, ColTypeBudget>>,
          data    |-> Tuple([r \in 1..n |->
                         <<date[r], simple[r], Str(<<"P", "R", "L", "V", " ">> \o simple[r].s), debit[r], Recurrente>>])]
    ELSE [columns |-> <<HeaderDate, HeaderSimple, HeaderLabel, HeaderDebit>>,
          data    |-> Tuple([r \in 1..n |->
                         <<date[r], simple[r], Str(<<"P", "R", "L", "V", " ">> \o simple[r].s), debit[r]>>])]

LegacyTables ==
    UNION {{LegacyTable(n, simple, debit, date, budget) :
               simple \in [1..n -> LegacySimple], debit \in LegacyDebits,
               date \in LegacyDates, budget \in BOOLEAN} :
           n \in MinBatch..MaxBatch}

InitLegacy ==
    /\ \E raw \in LegacyTables : inp = [op |-> "legacy", raw |-> raw]
    /\ out = Idle
    /\ categories = <<>> /\ rules = <<>> /\ ledger = <<>>
    /\ session = [loaded |-> TRUE, rows |-> <<>>]
    /\ last = Idle /\ imported = {} /\ steps = 0

\* main: the button "Importer et Traiter" with the statement uploaded
LegacyImport(account_type) ==
    /\ inp.op = "legacy" /\ steps < MaxImports
    /\ \E order \in LegacyOrders(LegacyCategorize(PreprocessData(inp.raw))) :
          LET new_df == LegacyDetectRecurrences(LegacyCategorize(PreprocessData(inp.raw)), order)
              result == InsertTransactions(ledger, new_df, account_type)
          IN  /\ ledger' = result[1]
              /\ session' = [loaded |-> TRUE, rows |-> result[1]]
              /\ last' = [op |-> "legacy_import", account_type |-> account_type,
                          new_df |-> new_df, inserted |-> result[2], before |-> ledger]
    /\ steps' = steps + 1
    /\ UNCHANGED <<categories, rules, imported, inp, out>>

NextLegacy == \E account_type \in Accounts : LegacyImport(account_type)

SpecLegacy == InitLegacy /\ [][NextLegacy]_vars

LegacyImported == inp.op = "legacy" /\ last # Idle

\* the rows of the imported frame that detect_recurrences marked
MarkedRows ==
    {r \in 1..Len(last.new_df.data) :
        RowGet(last.new_df, r, HeaderTypeBudget, Ponctuel) = Recurrente}

\* the stored record of row r of the imported frame
StoredOf(r) ==
    CHOOSE i \in 1..Len(ledger) :
        ledger[i].hash = LegacyCalculateHash(last.new_df, r, last.account_type)

\* C30: every row that detect_recurrences marks as recurring is stored with
\* type_budget equal to the recurring value.
LegacyKeepsRecurrence ==
    LegacyImported =>
        \A r \in MarkedRows : ledger[StoredOf(r)].type_budget = Recurrente

\* What does hold: a stored record takes type_budget from the file's column of
\* that name and is 'Ponctuel' when the file has none, whatever was detected.
LegacyStoresFileColumn ==
    LegacyImported =>
        \A r \in 1..Len(last.new_df.data) :
            ledger[StoredOf(r)].type_budget =
                (IF HasCol(inp.raw, ColTypeBudget) THEN Recurrente ELSE Ponctuel)

\* a marked row was imported from a file without the column type_budget
MarkedRowReached ==
    LegacyImported /\ MarkedRows # {} /\ ~HasCol(inp.raw, ColTypeBudget)

====
